---- MODULE Spec2Model ----
(***************************************************************************)
(* A model of the API client of the library front end (src/lib/api.ts):    *)
(* the process-wide auth token (in-memory cell, localStorage mirror,       *)
(* pluggable provider), the request/response cycle of api.get/post/put/    *)
(* patch/delete and authApi.login, and the 401 policy of the components    *)
(* that call the client.                                                   *)
(***************************************************************************)
EXTENDS Integers, Sequences, FiniteSets, TLC

VARIABLES
    inMemoryAuthToken,        \* api.ts:36  let inMemoryAuthToken
    customAuthTokenProvider,  \* api.ts:37  let customAuthTokenProvider
    localStorage,             \* the entry under AUTH_TOKEN_STORAGE_KEY, or Null
    environment,              \* where the module runs: server, or a browser and its storage
    calls,                    \* the api calls awaiting fetch, one per slot
    event,                    \* the last step taken by the client, with what it observed
    history,                  \* what the explicit token operations have established so far
    route,                    \* the route the router was last sent to by a caller
    error,                    \* the message a caller last showed with setError, or Null
    response,                 \* the Response last handed to handleResponse
    result,                   \* what handleResponse did with it
    args,                     \* the arguments of the client function last called
    returned,                 \* what that call returned or handed to fetch
    requests,                 \* the requests fetch has received, oldest first
    pages                     \* the page components: where each is in its life, and its state

vars == <<inMemoryAuthToken, customAuthTokenProvider, localStorage, environment,
          calls, event, history, route, error, response, result,
          args, returned, requests, pages>>

\* The variables only the specifications of single functions and of the
\* request log and the page components use.
auxVars == <<args, returned, requests, pages>>

\* Before any function has been called.
NoArgs == [fn |-> "none"]
NoReturn == [fn |-> "none"]

\* No page component is rendered.
NoPages == <<>>

tokenVars == <<inMemoryAuthToken, customAuthTokenProvider, localStorage, environment>>

-----------------------------------------------------------------------------
(* JavaScript values.  null and undefined are kept apart from every string. *)

Null == "<null>"
Undefined == "<undefined>"

\* A JS value is truthy unless it is null, undefined or the empty string
\* (the only falsy values a token, a provider result or a raw text can take).
Truthy(v) == v \notin {Null, Undefined, ""}

\* String.prototype.trim on the strings of the model.
Trim(s) ==
    CASE s = "  " -> ""
      [] s = " " -> ""
      [] s = " oops " -> "oops"
      [] s = " quoted " -> "quoted"
      [] OTHER -> s

\* The keys the client looks up in a parsed body.
Keys == {"message", "token", "accessToken", "access_token", "error"}

\* A property of a parsed object: its typeof, and String(value).
Prop(type, str) == [type |-> type, str |-> str]
Missing == Prop("undefined", "undefined")
NoProps == [k \in Keys |-> Missing]

\* A parsed body: typeof-like tag, the string when it is one, the properties
\* when it is an object.
JsUndefined == [type |-> "undefined", str |-> "", props |-> NoProps]
JsNull == [type |-> "null", str |-> "", props |-> NoProps]
JsString(s) == [type |-> "string", str |-> s, props |-> NoProps]
JsArray == [type |-> "array", str |-> "", props |-> NoProps]
JsObject(props) == [type |-> "object", str |-> "", props |-> props @@ NoProps]

\* Truthiness of a property value: strings unless empty, numbers unless 0,
\* arrays and objects always, null and undefined never.
PropTruthy(p) ==
    CASE p.type = "string" -> p.str # ""
      [] p.type = "number" -> p.str # "0"
      [] p.type \in {"array", "object"} -> TRUE
      [] OTHER -> FALSE

-----------------------------------------------------------------------------
(* Responses.                                                               *)

\* Raw response texts: empty, blank, plain text, JSON of every shape the
\* client distinguishes, and text that is not JSON.
Bodies ==
    { "", "  ", " oops ",
      "{\"message\":\"boom\"}", "{\"message\":\"\"}", "{\"message\":[\"a\",\"b\"]}",
      "{\"message\":[]}",
      "{\"error\":\"x\"}", "\" quoted \"", "null", "[1]", "{bad",
      "{\"token\":\"t1\"}", "{\"accessToken\":\"t2\"}", "{\"access_token\":\"t1\"}",
      "{\"token\":\" \",\"accessToken\":\"t2\"}", "{\"token\":5,\"access_token\":\"t1\"}",
      "{\"token\":\"t1\",\"accessToken\":\"t2\"}", "{\"token\":\" \"}" }

\* JSON.parse on the raw texts of the model: the parsed value, or a SyntaxError.
Parsed(v) == [ok |-> TRUE, value |-> v]
SyntaxError == [ok |-> FALSE, value |-> JsUndefined]
JSONparse(raw) ==
    CASE raw = "{\"message\":\"boom\"}" -> Parsed(JsObject("message" :> Prop("string", "boom")))
      [] raw = "{\"message\":\"\"}" -> Parsed(JsObject("message" :> Prop("string", "")))
      [] raw = "{\"message\":[\"a\",\"b\"]}" -> Parsed(JsObject("message" :> Prop("array", "a,b")))
      [] raw = "{\"message\":[]}" -> Parsed(JsObject("message" :> Prop("array", "")))
      [] raw = "{\"error\":\"x\"}" -> Parsed(JsObject("error" :> Prop("string", "x")))
      [] raw = "\" quoted \"" -> Parsed(JsString(" quoted "))
      [] raw = "null" -> Parsed(JsNull)
      [] raw = "[1]" -> Parsed(JsArray)
      [] raw = "{\"token\":\"t1\"}" -> Parsed(JsObject("token" :> Prop("string", "t1")))
      [] raw = "{\"accessToken\":\"t2\"}" -> Parsed(JsObject("accessToken" :> Prop("string", "t2")))
      [] raw = "{\"access_token\":\"t1\"}" -> Parsed(JsObject("access_token" :> Prop("string", "t1")))
      [] raw = "{\"token\":\" \",\"accessToken\":\"t2\"}" ->
            Parsed(JsObject("token" :> Prop("string", " ") @@ "accessToken" :> Prop("string", "t2")))
      [] raw = "{\"token\":5,\"access_token\":\"t1\"}" ->
            Parsed(JsObject("token" :> Prop("number", "5") @@ "access_token" :> Prop("string", "t1")))
      [] raw = "{\"token\":\"t1\",\"accessToken\":\"t2\"}" ->
            Parsed(JsObject("token" :> Prop("string", "t1") @@ "accessToken" :> Prop("string", "t2")))
      [] raw = "{\"token\":\" \"}" -> Parsed(JsObject("token" :> Prop("string", " ")))
      [] OTHER -> SyntaxError

\* HTTP statuses a fetch Response can carry, both sides of every boundary the
\* client draws.
Statuses == {200, 204, 299, 300, 401, 404, 500}

\* content-type headers; Undefined is a response without the header.
ContentTypes == {"application/json", "application/json; charset=utf-8", "text/plain", Undefined}

\* A Response: status, content-type header, body text, and whether reading
\* the body succeeds (response.text() rejects when the stream breaks).
Response(status, contentType, body, readable) ==
    [status |-> status, contentType |-> contentType, body |-> body, readable |-> readable]

Responses ==
    { Response(s, c, b, TRUE) : s \in Statuses, c \in ContentTypes, b \in Bodies }
    \cup { Response(s, c, "", FALSE) : s \in Statuses, c \in ContentTypes }

NoResponse == Response(0, Undefined, "", FALSE)

\* Response.ok
Ok(resp) == resp.status >= 200 /\ resp.status <= 299

\* contentType.includes("application/json"), with ?? "" for a missing header
IsJson(contentType) ==
    contentType \in {"application/json", "application/json; charset=utf-8"}

-----------------------------------------------------------------------------
(* handleResponse (api.ts:124-162).                                         *)

Resolved(value) ==
    [kind |-> "resolve", value |-> value, name |-> "", statusCode |-> 0, message |-> ""]
Rejected(name, statusCode, message) ==
    [kind |-> "reject", value |-> JsUndefined, name |-> name,
     statusCode |-> statusCode, message |-> message]
NoResult == [kind |-> "none", value |-> JsUndefined, name |-> "", statusCode |-> 0, message |-> ""]

\* new ApiError(statusCode, message)
ApiError(statusCode, message) == Rejected("ApiError", statusCode, message)

\* rawText: the body text, or undefined when reading it throws (api.ts:128-133)
RawText(resp) == IF resp.readable THEN resp.body ELSE Undefined

\* Data with the catch of api.ts:141-143 dropping the text instead of keeping
\* it: a body that fails to parse leaves data undefined.
DataDroppingUnparsedText(resp) ==
    LET rawText == RawText(resp) IN
    IF Truthy(rawText)
    THEN IF IsJson(resp.contentType)
         THEN IF JSONparse(rawText).ok THEN JSONparse(rawText).value ELSE JsUndefined
         ELSE JsString(rawText)
    ELSE JsUndefined

\* data (api.ts:135-147)
Data(resp) ==
    LET rawText == RawText(resp) IN
    IF Truthy(rawText)
    THEN IF IsJson(resp.contentType)
         THEN IF JSONparse(rawText).ok THEN JSONparse(rawText).value ELSE JsString(rawText)
         ELSE JsString(rawText)
    ELSE JsUndefined

\* A message that uses the message field or the status, never the text.
ErrorMessageWithoutText(resp) ==
    IF Data(resp).type = "object" /\ PropTruthy(Data(resp).props["message"])
    THEN Data(resp).props["message"].str
    ELSE "HTTP " \o ToString(resp.status)

\* message (api.ts:150-156)
ErrorMessage(resp) ==
    LET data == Data(resp) IN
    IF data.type = "object" /\ data.props["message"].type # "undefined"
       /\ PropTruthy(data.props["message"])
    THEN data.props["message"].str
    ELSE IF data.type = "string" /\ Trim(data.str) # ""
         THEN Trim(data.str)
         ELSE "HTTP " \o ToString(resp.status)

\* handleResponse without the try/catch around JSON.parse: a JSON body that
\* does not parse makes the call reject with the SyntaxError.
handleResponseThrowingOnParse(resp) ==
    IF Truthy(RawText(resp)) /\ IsJson(resp.contentType) /\ ~JSONparse(RawText(resp)).ok
    THEN Rejected("SyntaxError", 0, "Unexpected token")
    ELSE IF ~Ok(resp)
    THEN ApiError(resp.status, ErrorMessage(resp))
    ELSE Resolved(IF Data(resp).type = "null" THEN JsUndefined ELSE Data(resp))

handleResponse(resp) ==
    IF ~Ok(resp)
    THEN ApiError(resp.status, ErrorMessage(resp))
    ELSE Resolved(IF Data(resp).type = "null" THEN JsUndefined ELSE Data(resp))

-----------------------------------------------------------------------------
(* extractAuthToken (api.ts:176-191).                                       *)

possibleKeys == <<"token", "accessToken", "access_token">>

RECURSIVE FirstToken(_, _)
FirstToken(payload, i) ==
    IF i > Len(possibleKeys) THEN Null
    ELSE LET value == payload.props[possibleKeys[i]] IN
         IF value.type = "string" /\ Trim(value.str) # ""
         THEN value.str
         ELSE FirstToken(payload, i + 1)

\* extractAuthToken taking any string it finds, blank or not.
RECURSIVE FirstString(_, _)
FirstString(payload, i) ==
    IF i > Len(possibleKeys) THEN Null
    ELSE IF payload.props[possibleKeys[i]].type = "string"
         THEN payload.props[possibleKeys[i]].str
         ELSE FirstString(payload, i + 1)

extractAuthTokenAcceptingBlank(payload) ==
    IF payload.type # "object" THEN Null ELSE FirstString(payload, 1)

extractAuthToken(payload) ==
    IF payload.type # "object" THEN Null ELSE FirstToken(payload, 1)

-----------------------------------------------------------------------------
(* The token state (api.ts:20-98).                                          *)

\* Tokens a login response or a setAuthToken caller can supply.
Tokens == {"t1", "t2"}

\* Token providers handed to configureAuthTokenProvider: one returning a
\* token, one returning "", one returning null, one that throws.
Providers == {"returns p1", "returns empty", "returns null", "throws"}

\* Calling a provider: the value it returns, or that it threw.
CallProvider(provider) ==
    CASE provider = "returns p1" -> [threw |-> FALSE, value |-> "p1"]
      [] provider = "returns empty" -> [threw |-> FALSE, value |-> ""]
      [] provider = "returns null" -> [threw |-> FALSE, value |-> Null]
      [] OTHER -> [threw |-> TRUE, value |-> Undefined]

\* Where the module is evaluated: on the server (no window), or in a browser
\* whose localStorage works, is full (setItem throws QuotaExceededError) or is
\* blocked (every access throws SecurityError; such a store holds nothing the
\* page can reach, and starts without an entry).
Environments == {"server", "browser", "browser storage full", "browser storage blocked"}

\* isBrowser() (api.ts:22)
isBrowser == environment # "server"

SetItemThrows == environment \in {"browser storage full", "browser storage blocked"}
RemoveItemThrows == environment = "browser storage blocked"
GetItemThrows == environment = "browser storage blocked"

\* persistAuthToken (api.ts:39-55): the cell is written first; the store is
\* written only in a browser, and an exception of the store is caught and logged.
persistAuthToken(token) ==
    /\ inMemoryAuthToken' = token
    /\ localStorage' =
          IF ~isBrowser THEN localStorage
          ELSE IF Truthy(token)
               THEN IF SetItemThrows THEN localStorage ELSE token
               ELSE IF RemoveItemThrows THEN localStorage ELSE Null

\* The exception persistAuthToken catches, if any (api.ts:52-54).
PersistCaught(token) ==
    IF isBrowser /\ (IF Truthy(token) THEN SetItemThrows ELSE RemoveItemThrows)
    THEN {"store write"} ELSE {}

\* A getAuthToken in which a configured provider is the only source of the
\* token, without the fall back to the stored token.
getAuthTokenWithoutFallback ==
    IF customAuthTokenProvider = Null
    THEN [token |-> inMemoryAuthToken, memory |-> inMemoryAuthToken, caught |-> {}]
    ELSE IF ~CallProvider(customAuthTokenProvider).threw
            /\ Truthy(CallProvider(customAuthTokenProvider).value)
    THEN [token |-> CallProvider(customAuthTokenProvider).value,
          memory |-> CallProvider(customAuthTokenProvider).value, caught |-> {}]
    ELSE [token |-> Null, memory |-> inMemoryAuthToken, caught |-> {}]

\* getAuthToken (api.ts:69-98): the token it returns, the value it leaves in
\* the in-memory cell, and the exceptions it caught on the way.
getAuthToken ==
    LET provided == IF customAuthTokenProvider = Null
                    THEN [threw |-> FALSE, value |-> Null]
                    ELSE CallProvider(customAuthTokenProvider)
        caught == IF provided.threw THEN {"provider"} ELSE {}
    IN
    IF customAuthTokenProvider # Null /\ ~provided.threw /\ Truthy(provided.value)
    THEN [token |-> provided.value, memory |-> provided.value, caught |-> caught]
    ELSE IF Truthy(inMemoryAuthToken)
    THEN [token |-> inMemoryAuthToken, memory |-> inMemoryAuthToken, caught |-> caught]
    ELSE IF ~isBrowser
    THEN [token |-> Null, memory |-> inMemoryAuthToken, caught |-> caught]
    ELSE IF GetItemThrows
    THEN [token |-> Null, memory |-> inMemoryAuthToken, caught |-> caught \cup {"store read"}]
    ELSE [token |-> localStorage, memory |-> localStorage, caught |-> caught]

\* Whether the configured provider supplies the token of a call made now.
ProviderSupplies ==
    /\ customAuthTokenProvider # Null
    /\ ~CallProvider(customAuthTokenProvider).threw
    /\ Truthy(CallProvider(customAuthTokenProvider).value)

\* withAuthHeaders (api.ts:198-213): the Authorization header of the request,
\* Undefined when the header is not set.
Bearer(token) == IF Truthy(token) THEN "Bearer " \o token ELSE Undefined
withAuthHeaders == Bearer(getAuthToken.token)

-----------------------------------------------------------------------------
(* The client as a state machine: token operations and api calls.          *)

\* How many api calls may await their response at once.
MaxInFlight == 2
Slots == 1..MaxInFlight

\* The calls of the client: "api" is any of api.get/post/put/patch/delete,
\* which differ in the method and body of the request only, and "login" is
\* authApi.login: api.post("/auth/login") followed by the token extraction.
Ops == {"api", "login"}

\* A call awaiting fetch: the Authorization header it was sent with, and,
\* for a login, whether building its headers changed the in-memory cell.
Call(op, authorization, touched) ==
    [op |-> op, authorization |-> authorization, touched |-> touched]
Idle == Call("idle", Undefined, FALSE)

\* The responses the calls of the state machine receive: a success and an
\* expired session, JSON and text, with and without a token, unreadable.
LiveResponses ==
    { Response(200, "application/json", "{\"accessToken\":\"t2\"}", TRUE),
      Response(200, "application/json", "{\"token\":\"t1\",\"accessToken\":\"t2\"}", TRUE),
      Response(200, "application/json", "{\"token\":\" \"}", TRUE),
      Response(200, "application/json", "{\"message\":\"boom\"}", TRUE),
      Response(200, "application/json", "{bad", TRUE),
      Response(200, "application/json", "", FALSE),
      Response(401, "application/json", "{\"message\":\"boom\"}", TRUE),
      Response(401, "text/plain", "", TRUE) }

\* The exceptions handleResponse catches on a response (api.ts:131, 141).
ResponseCaught(resp) ==
    (IF ~resp.readable THEN {"body read"} ELSE {})
    \cup (IF Truthy(RawText(resp)) /\ IsJson(resp.contentType) /\ ~JSONparse(RawText(resp)).ok
          THEN {"json parse"} ELSE {})

\* One step of the client, as the caller and the network see it.
Event(type, op, authorization, supplied, afterLogin, touched, resp, outcome, caught) ==
    [type |-> type, op |-> op, authorization |-> authorization, supplied |-> supplied,
     afterLogin |-> afterLogin, touched |-> touched, response |-> resp,
     outcome |-> outcome, caught |-> caught]
TokenEvent(type, caught) ==
    Event(type, "none", Undefined, FALSE, Null, FALSE, NoResponse, NoResult, caught)

\* What the explicit token operations have established: the token last set
\* by setAuthToken or login (Null after a logout), whether the client is
\* logged out, and the token of a login that resolved and has not been
\* followed by an api call yet.
History(userToken, loggedOut, freshLogin) ==
    [userToken |-> userToken, loggedOut |-> loggedOut, freshLogin |-> freshLogin]

\* The error authApi.login throws when no token is found (api.ts:281).
TokenNotFound ==
    Rejected("Error", 0, "Token de autenticación no encontrado en la respuesta del servidor")

\* What fetch rejects with on a network failure.
NetworkError == Rejected("TypeError", 0, "Failed to fetch")

Init ==
    /\ inMemoryAuthToken = Null
    /\ customAuthTokenProvider = Null
    /\ environment \in Environments
    /\ localStorage \in (IF environment \in {"browser", "browser storage full"}
                         THEN {Null, "t1"} ELSE {Null})
    /\ calls = [i \in Slots |-> Idle]
    /\ event = TokenEvent("init", {})
    /\ history = History(localStorage, "no", Null)
    /\ route = "/"
    /\ error = Null
    /\ response = NoResponse
    /\ result = NoResult
    /\ args = NoArgs
    /\ returned = NoReturn
    /\ requests = <<>>
    /\ pages = NoPages

\* setAuthToken (api.ts:57-59)
SetAuthToken(token) ==
    /\ persistAuthToken(token)
    /\ event' = TokenEvent("setAuthToken", PersistCaught(token))
    /\ history' = History(token, "no", Null)
    /\ UNCHANGED <<customAuthTokenProvider, environment, calls, route, error, response, result, auxVars>>

\* clearAuthToken (api.ts:61-63)
ClearAuthToken ==
    /\ persistAuthToken(Null)
    /\ event' = TokenEvent("clearAuthToken", PersistCaught(Null))
    /\ history' = History(Null, "yes", Null)
    /\ UNCHANGED <<customAuthTokenProvider, environment, calls, route, error, response, result, auxVars>>

\* configureAuthTokenProvider (api.ts:65-67)
ConfigureAuthTokenProvider(provider) ==
    /\ customAuthTokenProvider' = provider
    /\ event' = TokenEvent("configureAuthTokenProvider", {})
    /\ UNCHANGED <<inMemoryAuthToken, localStorage, environment, calls, history,
                   route, error, response, result, auxVars>>

\* The history after getAuthToken ran. getAuthToken is no explicit token
\* operation: whatever it returns or caches, the client stays logged out if
\* it was, and the token last set stays the token last set. An api call
\* passes Null, being the call that followed the fresh login; a bare
\* getAuthToken passes the fresh-login token on.
AfterGetAuthToken(freshLogin) ==
    [history EXCEPT !.freshLogin = freshLogin]

\* A caller reads the token: authApi.getToken (api.ts:289)
GetAuthToken ==
    /\ inMemoryAuthToken' = getAuthToken.memory
    /\ event' = Event("getAuthToken", "none", Bearer(getAuthToken.token), ProviderSupplies,
                      Null, FALSE, NoResponse, NoResult, getAuthToken.caught)
    /\ history' = AfterGetAuthToken(history.freshLogin)
    /\ UNCHANGED <<customAuthTokenProvider, localStorage, environment, calls,
                   route, error, response, result, auxVars>>

\* api.get/post/put/patch/delete up to `await fetch` (api.ts:217-272), and
\* authApi.login up to its `await api.post` (api.ts:277): the headers are
\* built, which reads the token, and the request leaves.
Request(i, op) ==
    /\ calls[i] = Idle
    /\ \A j \in 1..(i - 1) : calls[j] # Idle
    /\ inMemoryAuthToken' = getAuthToken.memory
    /\ calls' = [calls EXCEPT ![i] =
                    Call(op, withAuthHeaders,
                         op = "login" /\ getAuthToken.memory # inMemoryAuthToken)]
    /\ event' = Event("request", op, withAuthHeaders, ProviderSupplies, history.freshLogin,
                      FALSE, NoResponse, NoResult, getAuthToken.caught)
    /\ history' = AfterGetAuthToken(Null)
    /\ UNCHANGED <<customAuthTokenProvider, localStorage, environment, route, error, response, result, auxVars>>

\* A verb whose fetch rejected and which tries again, which the client does
\* not do.
FetchRejectsRetrying(i) ==
    /\ calls[i] # Idle
    /\ requests # <<>>
    /\ requests' = Append(requests, requests[Len(requests)])
    /\ event' = Event("settled", calls[i].op, Undefined, FALSE, Null,
                      calls[i].touched, NoResponse, NetworkError, {})
    /\ UNCHANGED <<tokenVars, calls, history, route, error, response, result,
                   args, returned, pages>>

\* fetch rejects: the call rejects with the same error (no catch in api.ts).
FetchRejects(i) ==
    /\ calls[i] # Idle
    /\ calls' = [calls EXCEPT ![i] = Idle]
    /\ event' = Event("settled", calls[i].op, Undefined, FALSE, Null,
                      calls[i].touched, NoResponse, NetworkError, {})
    /\ UNCHANGED <<tokenVars, history, route, error, response, result, auxVars>>

\* A verb that logs the client out when the answer is a 401, which the
\* client leaves to its callers.
SettleApiClearingOn401(i, resp) ==
    /\ calls[i].op = "api"
    /\ calls' = [calls EXCEPT ![i] = Idle]
    /\ event' = Event("settled", calls[i].op, Undefined, FALSE, Null,
                      calls[i].touched, resp, handleResponse(resp), ResponseCaught(resp))
    /\ IF resp.status = 401
       THEN persistAuthToken(Null)
       ELSE UNCHANGED <<inMemoryAuthToken, localStorage>>
    /\ UNCHANGED <<customAuthTokenProvider, environment, history, route, error, response,
                   result, auxVars>>

\* The rest of an api verb: `return handleResponse(response)`.
SettleApi(i, resp) ==
    /\ calls[i].op = "api"
    /\ calls' = [calls EXCEPT ![i] = Idle]
    /\ event' = Event("settled", calls[i].op, Undefined, FALSE, Null,
                      calls[i].touched, resp, handleResponse(resp), ResponseCaught(resp))
    /\ UNCHANGED <<tokenVars, history, route, error, response, result, auxVars>>

\* The rest of authApi.login (api.ts:277-285) when handleResponse throws or
\* no token is found: the login rejects and nothing is stored.
SettleLoginRejected(i, resp) ==
    /\ calls[i].op = "login"
    /\ \/ handleResponse(resp).kind = "reject"
       \/ ~Truthy(extractAuthToken(handleResponse(resp).value))
    /\ calls' = [calls EXCEPT ![i] = Idle]
    /\ event' = Event("settled", "login", Undefined, FALSE, Null,
                      calls[i].touched, resp,
                      IF handleResponse(resp).kind = "reject"
                      THEN handleResponse(resp) ELSE TokenNotFound,
                      ResponseCaught(resp))
    /\ UNCHANGED <<tokenVars, history, route, error, response, result, auxVars>>

\* The rest of authApi.login when a token is found: setAuthToken(token), and
\* the login resolves to the token.
SettleLoginResolved(i, resp) ==
    LET token == extractAuthToken(handleResponse(resp).value) IN
    /\ calls[i].op = "login"
    /\ handleResponse(resp).kind = "resolve"
    /\ Truthy(token)
    /\ persistAuthToken(token)
    /\ calls' = [calls EXCEPT ![i] = Idle]
    /\ event' = Event("settled", "login", Undefined, FALSE, Null,
                      calls[i].touched, resp, Resolved(JsString(token)),
                      ResponseCaught(resp) \cup PersistCaught(token))
    /\ history' = History(token, "no", token)
    /\ UNCHANGED <<customAuthTokenProvider, environment, route, error, response, result, auxVars>>

Respond(i, resp) ==
    \/ SettleApi(i, resp)
    \/ SettleLoginRejected(i, resp)
    \/ SettleLoginResolved(i, resp)

Next ==
    \/ \E token \in Tokens : SetAuthToken(token)
    \/ ClearAuthToken
    \/ \E provider \in Providers \cup {Null} : ConfigureAuthTokenProvider(provider)
    \/ GetAuthToken
    \/ \E i \in Slots, op \in Ops : Request(i, op)
    \/ \E i \in Slots : FetchRejects(i)
    \/ \E i \in Slots, resp \in LiveResponses : Respond(i, resp)

Spec == Init /\ [][Next]_vars

-----------------------------------------------------------------------------
(* handleResponse on its own: every response of the model is handed to it.  *)

InitResponse ==
    /\ inMemoryAuthToken = Null
    /\ customAuthTokenProvider = Null
    /\ environment = "browser"
    /\ localStorage = Null
    /\ calls = [i \in Slots |-> Idle]
    /\ event = TokenEvent("init", {})
    /\ history = History(Null, "no", Null)
    /\ route = "/"
    /\ error = Null
    /\ response = NoResponse
    /\ result = NoResult
    /\ args = NoArgs
    /\ returned = NoReturn
    /\ requests = <<>>
    /\ pages = NoPages

HandleResponse(resp) ==
    /\ response' = resp
    /\ result' = handleResponse(resp)
    /\ UNCHANGED <<tokenVars, calls, event, history, route, error, auxVars>>

NextResponse == \E resp \in Responses : HandleResponse(resp)

SpecResponse == InitResponse /\ [][NextResponse]_vars

-----------------------------------------------------------------------------
(* Claims about handleResponse, checked under SpecResponse.                 *)

\* The message C1 states: the body's message field when present (and not
\* empty), otherwise the trimmed raw body (for a body that is a JSON string,
\* the string it denotes), otherwise HTTP <status>.
ClaimedMessage(resp) ==
    LET parsed == IF resp.readable /\ resp.body # "" /\ IsJson(resp.contentType)
                     /\ JSONparse(resp.body).ok
                  THEN JSONparse(resp.body).value ELSE JsUndefined
        text == IF parsed.type = "string" THEN parsed.str ELSE resp.body
    IN
    IF parsed.type = "object" /\ PropTruthy(parsed.props["message"])
    THEN parsed.props["message"].str
    ELSE IF resp.readable /\ Trim(text) # ""
         THEN Trim(text)
         ELSE "HTTP " \o ToString(resp.status)

\* C1: for every response whose status is 300 or above the call rejects with
\* an ApiError whose statusCode is the response status and whose message is
\* the body's message field when present, otherwise the trimmed raw body
\* (JSON object bodies without a usable message field included), otherwise
\* HTTP <status>.
C1_ErrorMessageAsClaimed ==
    response.status >= 300 =>
        /\ result.kind = "reject"
        /\ result.name = "ApiError"
        /\ result.statusCode = response.status
        /\ result.message = ClaimedMessage(response)

\* The value C10 states for a 2xx response, as amended: nothing for an empty
\* or unreadable body and for the JSON literal null, the parsed value for a
\* JSON body that parses, the raw text otherwise.
SuccessValue(resp) ==
    IF ~resp.readable \/ resp.body = "" THEN JsUndefined
    ELSE IF IsJson(resp.contentType) /\ JSONparse(resp.body).ok
         THEN IF JSONparse(resp.body).value = JsNull
              THEN JsUndefined ELSE JSONparse(resp.body).value
         ELSE JsString(resp.body)

\* C10 (amended): for every response with status in [200,300) the call
\* resolves, never rejects: with undefined when the body is empty, cannot be
\* read or is the JSON literal null; with the parsed value when the
\* content-type is JSON and the body parses; with the raw text when the
\* content-type is not JSON or the body does not parse.
C10_SuccessResolves ==
    Ok(response) => result.kind = "resolve" /\ result.value = SuccessValue(response)

\* C10 witness: a 2xx response declared JSON whose body does not parse has
\* been handled and resolved with the raw text.
C10_Witness ==
    /\ Ok(response) /\ IsJson(response.contentType)
    /\ response.readable /\ response.body = "{bad"
    /\ result.kind = "resolve" /\ result.value = JsString("{bad")

\* C10 as stated: a 2xx response resolves with the parsed JSON value whenever
\* the content-type is JSON, with the raw text when it is not, with undefined
\* when the body is empty.
C10_AsClaimed ==
    Ok(response) =>
        /\ result.kind = "resolve"
        /\ IF response.body = "" THEN result.value = JsUndefined
           ELSE IF IsJson(response.contentType)
                THEN JSONparse(response.body).ok
                     /\ result.value = JSONparse(response.body).value
                ELSE result.value = JsString(response.body)

-----------------------------------------------------------------------------
(* Claims about the token and the calls, checked under Spec.                *)

\* C2: a provider that returns a non-empty string takes precedence for
\* exactly the calls made while it is configured: such a call carries the
\* provider's token, and a call made with no provider configured carries the
\* token stored by login/setAuthToken (no header when none is stored), never
\* a former provider's value.
C2_ProviderOnlyWhileActive ==
    event.type = "request" =>
        /\ ProviderSupplies =>
              event.authorization = Bearer(CallProvider(customAuthTokenProvider).value)
        /\ customAuthTokenProvider = Null =>
              event.authorization = Bearer(history.userToken)

\* C3: a provider override does not alter the stored token state: a
\* getAuthToken or an api call answered by the provider leaves the in-memory
\* cell and the persistent store as they were.
C3_ProviderLeavesStoredState ==
    [][(ProviderSupplies /\ event'.type \in {"request", "getAuthToken"})
          => (inMemoryAuthToken' = inMemoryAuthToken /\ localStorage' = localStorage)]_vars

\* C4: clearAuthToken leaves the in-memory token and the persistent entry
\* absent, and every api call issued after it, until the next login or
\* setAuthToken, carries no Authorization header. The calls for which a
\* configured provider supplies the token are left out of the statement: the
\* provider takes precedence for them by design.
C4_LogoutClears ==
    /\ event.type = "clearAuthToken" => inMemoryAuthToken = Null /\ localStorage = Null
    /\ (history.loggedOut = "yes" /\ event.type = "request" /\ ~event.supplied) =>
          event.authorization = Undefined

\* The token a login response carries: the response is a
\* 2xx whose body parses as a JSON object, and the token is the value of the
\* first of token, accessToken, access_token that is a non-blank string.
CarriedToken(resp) ==
    IF ~Ok(resp) \/ ~resp.readable \/ resp.body = "" \/ ~IsJson(resp.contentType)
       \/ ~JSONparse(resp.body).ok \/ JSONparse(resp.body).value.type # "object"
    THEN Null
    ELSE LET props == JSONparse(resp.body).value.props
             Usable(k) == props[k].type = "string" /\ Trim(props[k].str) # ""
         IN IF Usable("token") THEN props["token"].str
            ELSE IF Usable("accessToken") THEN props["accessToken"].str
            ELSE IF Usable("access_token") THEN props["access_token"].str
            ELSE Null

\* C5: when the login response is a 2xx JSON object carrying a non-blank
\* string t under token, accessToken or access_token (the first of them in
\* that order), login stores t in memory and, where the store can be
\* written, in the persistent store, and resolves to t; the next api call
\* carries Authorization: Bearer t. The calls for which a configured
\* provider supplies the token are left out of the statement: the provider
\* takes precedence for them by design.
C5_LoginRoundTrip ==
    /\ (event.type = "settled" /\ event.op = "login" /\ CarriedToken(event.response) # Null) =>
          /\ event.outcome = Resolved(JsString(CarriedToken(event.response)))
          /\ inMemoryAuthToken = CarriedToken(event.response)
          /\ environment = "browser" => localStorage = CarriedToken(event.response)
    /\ (event.type = "request" /\ event.afterLogin # Null /\ ~event.supplied) =>
          event.authorization = "Bearer " \o event.afterLogin

\* The tokens a login response carries, as the claims state it: every non-empty
\* string found under token, accessToken or access_token of a 2xx body.
ClaimedTokens(resp) ==
    IF ~Ok(resp) \/ ~resp.readable \/ resp.body = "" \/ ~JSONparse(resp.body).ok
    THEN {}
    ELSE { JSONparse(resp.body).value.props[k].str :
             k \in { key \in {"token", "accessToken", "access_token"} :
                       /\ JSONparse(resp.body).value.props[key].type = "string"
                       /\ JSONparse(resp.body).value.props[key].str # "" } }

\* C6: a login whose response is a success without any of the three token
\* fields rejects with the token-extraction error, and the in-memory cell and
\* the persistent store are after the call what they were before it.
C6_FailedLoginLeavesState ==
    (event.type = "settled" /\ event.op = "login" /\ Ok(event.response)
        /\ ClaimedTokens(event.response) = {}) =>
        event.outcome = TokenNotFound /\ ~event.touched

\* C7: the in-memory token is changed by login, setAuthToken and
\* clearAuthToken only: no api.get/post/put/patch/delete request, issued or
\* settled, changes the in-memory cell.
C7_RequestsLeaveCell ==
    [][(event'.op = "api" /\ event'.type \in {"request", "settled"})
          => inMemoryAuthToken' = inMemoryAuthToken]_vars

\* C9 (amended): a call rejects exactly for a transport failure (with fetch's
\* own error), a status outside 2xx, or a login response without a usable
\* token; a body that cannot be read, a JSON body that does not parse, a
\* persistent-store exception and a token-provider exception are caught
\* inside the client and never make a call reject or a token operation throw.
C9_WhatSurfaces ==
    /\ event.type = "settled" =>
          /\ event.outcome.kind = "reject" <=>
                \/ event.response = NoResponse
                \/ ~Ok(event.response)
                \/ event.op = "login" /\ CarriedToken(event.response) = Null
          /\ event.response = NoResponse => event.outcome = NetworkError
    /\ event.type # "settled" => event.outcome = NoResult

\* C9 witness: a call whose JSON body did not parse has resolved.
C9_Witness ==
    /\ event.type = "settled" /\ "json parse" \in event.caught
    /\ event.outcome.kind = "resolve"

\* C9 as stated: every failure during an api call or a token operation
\* (body read, JSON parse, persistent store, provider) surfaces as a rejected
\* call or a thrown error.
C9_AsClaimed ==
    event.caught # {} => event.outcome.kind = "reject"

-----------------------------------------------------------------------------
(* The components that call the client, and what each does with the         *)
(* outcome of its call.  A component stays mounted while its call is in     *)
(* flight, and its form has passed the checks that precede the call.        *)

Callers ==
    { "LibrariesPage.loadLibraries", "BooksPage.handleDelete",
      "CreateLibraryForm.handleSubmit", "CreateBookForm.handleSubmit",
      "CreateMemberForm.handleSubmit", "LoginPage.handleSubmit",
      "actions.returnLoan", "actions.createLoan" }

\* The server actions of app/loans/actions.ts: they set no component state
\* and hand {success, error} back.
ServerActions == {"actions.returnLoan", "actions.createLoan"}

\* The callers whose catch block tests `err instanceof ApiError &&
\* err.statusCode === 401` and then clears the token and redirects.
Handles401 ==
    { "LibrariesPage.loadLibraries", "BooksPage.handleDelete",
      "CreateLibraryForm.handleSubmit" }

\* Where a caller sends the router after a successful call; Null when it
\* stays on its route.
SuccessRoute(caller) ==
    CASE caller = "CreateLibraryForm.handleSubmit" -> "/libraries"
      [] caller = "CreateBookForm.handleSubmit" -> "/books"
      [] caller = "CreateMemberForm.handleSubmit" -> "/members"
      [] caller = "LoginPage.handleSubmit" -> "/"
      [] OTHER -> Null

SessionExpired == "Tu sesión ha expirado. Redirigiendo al inicio de sesión..."
InvalidCredentials == "Credenciales inválidas. Verifica tu correo y contraseña."

\* What authApi.login settles with on a response (api.ts:277-285).
LoginOutcome(resp) ==
    IF handleResponse(resp).kind = "reject" THEN handleResponse(resp)
    ELSE IF ~Truthy(extractAuthToken(handleResponse(resp).value)) THEN TokenNotFound
    ELSE Resolved(JsString(extractAuthToken(handleResponse(resp).value)))

\* What the client call of a caller settles with.
CallOutcome(caller, resp) ==
    IF resp = NoResponse THEN NetworkError
    ELSE IF caller = "LoginPage.handleSubmit" THEN LoginOutcome(resp)
    ELSE handleResponse(resp)

\* Whether the catch block of a caller takes its session-expired branch.
EndsSession(caller, outcome) ==
    /\ caller \in Handles401
    /\ outcome.name = "ApiError"
    /\ outcome.statusCode = 401

\* The message a caller shows (or a server action returns) for a rejection:
\* the create forms of books and members show `err.message || fallback`,
\* the others the message as it is.
CaughtMessage(caller, outcome) ==
    IF EndsSession(caller, outcome) THEN SessionExpired
    ELSE IF caller = "LoginPage.handleSubmit" /\ outcome.name = "ApiError"
            /\ outcome.statusCode = 401
    THEN InvalidCredentials
    ELSE IF caller = "CreateMemberForm.handleSubmit" /\ ~Truthy(outcome.message)
    THEN "Error al crear el miembro"
    ELSE IF caller = "CreateBookForm.handleSubmit" /\ ~Truthy(outcome.message)
    THEN "Error al crear el libro"
    ELSE outcome.message

\* A handler up to its awaited client call: it resets its error and the
\* request leaves with the headers withAuthHeaders builds.  Server actions
\* run on the server, the handlers and effects of components in the browser.
CallerRequest(i, caller) ==
    /\ caller \in ServerActions <=> ~isBrowser
    /\ calls[i] = Idle
    /\ \A j \in 1..(i - 1) : calls[j] # Idle
    /\ inMemoryAuthToken' = getAuthToken.memory
    /\ calls' = [calls EXCEPT ![i] = Call(caller, withAuthHeaders, FALSE)]
    /\ event' = Event("request", caller, withAuthHeaders, ProviderSupplies, history.freshLogin,
                      FALSE, NoResponse, NoResult, getAuthToken.caught)
    /\ history' = AfterGetAuthToken(Null)
    /\ error' = IF caller \in ServerActions THEN error ELSE Null
    /\ UNCHANGED <<customAuthTokenProvider, localStorage, environment, route, response, result, auxVars>>

\* A login whose authApi.login has settled with an outcome and whose
\* handleSubmit has not resumed yet.
LoginSettled(caller, outcome) ==
    [op |-> caller, authorization |-> Undefined, touched |-> FALSE, outcome |-> outcome]

\* The rest of a handler other than the login page's, once fetch has
\* answered with resp or has failed (NoResponse): the client call settles,
\* and the handler follows its try block or its catch block.  Nothing is
\* written between the two, so they are one step.
CallerSettle(i, resp) ==
    LET caller == calls[i].op
        outcome == CallOutcome(caller, resp)
    IN
    /\ caller \in Callers \ {"LoginPage.handleSubmit"}
    /\ calls' = [calls EXCEPT ![i] = Idle]
    /\ event' = Event("settled", caller, Undefined, FALSE, Null, FALSE, resp, outcome,
                      (IF resp = NoResponse THEN {} ELSE ResponseCaught(resp))
                          \cup (IF EndsSession(caller, outcome) THEN PersistCaught(Null) ELSE {}))
    /\ IF outcome.kind = "resolve"
       THEN /\ UNCHANGED <<inMemoryAuthToken, localStorage, history>>
            /\ route' = IF SuccessRoute(caller) = Null THEN route ELSE SuccessRoute(caller)
            /\ error' = error
       ELSE /\ IF EndsSession(caller, outcome)
               THEN /\ persistAuthToken(Null)
                    /\ history' = History(Null, "yes", Null)
                    /\ route' = "/auth/login"
               ELSE UNCHANGED <<inMemoryAuthToken, localStorage, history, route>>
            /\ error' = CaughtMessage(caller, outcome)
    /\ UNCHANGED <<customAuthTokenProvider, environment, response, result, auxVars>>

\* authApi.login after its await (api.ts:278-285), called by the login
\* page: the token is extracted and stored, or the login rejects; the
\* handleSubmit that awaits it resumes in a later step.
LoginSettles(i, resp) ==
    LET caller == calls[i].op
        outcome == CallOutcome(caller, resp)
    IN
    /\ caller = "LoginPage.handleSubmit"
    /\ "outcome" \notin DOMAIN calls[i]
    /\ calls' = [calls EXCEPT ![i] = LoginSettled(caller, outcome)]
    /\ event' = Event("settled", caller, Undefined, FALSE, Null, FALSE, resp, outcome,
                      (IF resp = NoResponse THEN {} ELSE ResponseCaught(resp))
                          \cup (IF outcome.kind = "resolve"
                                THEN PersistCaught(outcome.value.str) ELSE {}))
    /\ IF outcome.kind = "resolve"
       THEN /\ persistAuthToken(outcome.value.str)
            /\ history' = History(outcome.value.str, "no", outcome.value.str)
       ELSE UNCHANGED <<inMemoryAuthToken, localStorage, history>>
    /\ UNCHANGED <<customAuthTokenProvider, environment, route, error, response, result,
                   auxVars>>

\* handleSubmit of the login page after `await authApi.login` (part_008:
\* 94-112): the router is sent to "/" or the error is shown.
LoginPageResumes(i) ==
    /\ calls[i].op = "LoginPage.handleSubmit"
    /\ "outcome" \in DOMAIN calls[i]
    /\ calls' = [calls EXCEPT ![i] = Idle]
    /\ event' = Event("resumed", calls[i].op, Undefined, FALSE, Null, FALSE, NoResponse,
                      calls[i].outcome, {})
    /\ IF calls[i].outcome.kind = "resolve"
       THEN /\ route' = SuccessRoute(calls[i].op)
            /\ error' = error
       ELSE /\ route' = route
            /\ error' = CaughtMessage(calls[i].op, calls[i].outcome)
    /\ UNCHANGED <<tokenVars, history, response, result, auxVars>>

\* The answers the callers meet: a login payload, an ordinary payload, the
\* two 401 shapes and a refusal whose message is empty.
CallerResponses ==
    { Response(200, "application/json", "{\"accessToken\":\"t2\"}", TRUE),
      Response(200, "application/json", "{\"message\":\"boom\"}", TRUE),
      Response(401, "application/json", "{\"message\":\"boom\"}", TRUE),
      Response(401, "text/plain", "", TRUE),
      Response(400, "application/json", "{\"message\":[]}", TRUE) }

NextCallers ==
    \/ \E token \in Tokens : SetAuthToken(token)
    \/ \E i \in Slots, caller \in Callers : CallerRequest(i, caller)
    \/ \E i \in Slots, resp \in CallerResponses \cup {NoResponse} : CallerSettle(i, resp)
    \/ \E i \in Slots, resp \in CallerResponses \cup {NoResponse} : LoginSettles(i, resp)
    \/ \E i \in Slots : LoginPageResumes(i)

SpecCallers == Init /\ [][NextCallers]_vars

\* C8: every page or form that calls the API treats a 401 ApiError as session
\* expiry: it clears the auth token and redirects to /auth/login; this holds
\* for every calling component, CreateBookForm, CreateMemberForm, the login
\* page and the loans server actions included.
C8_Every401EndsSession ==
    (event.type = "settled" /\ event.op \in Callers
        /\ event.outcome.name = "ApiError" /\ event.outcome.statusCode = 401) =>
        /\ inMemoryAuthToken = Null
        /\ localStorage = Null
        /\ route = "/auth/login"

-----------------------------------------------------------------------------
(* buildUrl (api.ts:102-122).  Query values are spelt character by          *)
(* character so that trimming and encoding are computed, not looked up.     *)

\* The values a query parameter can hold (QueryParamValue, api.ts:100).
QString(chars) == [type |-> "string", chars |-> chars]
QNumber(chars) == [type |-> "number", chars |-> chars]
QBoolean(chars) == [type |-> "boolean", chars |-> chars]
QNull == [type |-> "null", chars |-> <<>>]
QUndefined == [type |-> "undefined", chars |-> <<>>]

QueryValues ==
    { QUndefined, QNull, QString(<<>>), QString(<<" ">>), QString(<<"x">>),
      QString(<<"a", " ", "b">>), QString(<<"a", "&", "b">>),
      QNumber(<<"0">>), QBoolean(<<"f", "a", "l", "s", "e">>) }

QueryKeys == {"title", "q"}

Entry(key, value) == [key |-> key, value |-> value]

\* The query argument: an object with its entries in insertion order, each
\* key at most once, or no object at all.
Query(entries) == [given |-> TRUE, entries |-> entries]
NoQuery == [given |-> FALSE, entries |-> <<>>]

QueryEntries ==
    {<<>>}
    \cup { <<Entry(k, v)>> : k \in QueryKeys, v \in QueryValues }
    \cup UNION { { <<Entry(k1, v1), Entry(k2, v2)>> :
                       k2 \in QueryKeys \ {k1}, v1 \in QueryValues, v2 \in QueryValues } :
                   k1 \in QueryKeys }

Queries == { Query(entries) : entries \in QueryEntries } \cup {NoQuery}

\* String(value) (api.ts:113)
StringOf(value) == value.chars

Whitespace == {" "}

\* String.prototype.trim on a string spelt out.
RECURSIVE TrimChars(_)
TrimChars(chars) ==
    IF chars = <<>> THEN <<>>
    ELSE IF Head(chars) \in Whitespace THEN TrimChars(Tail(chars))
    ELSE IF chars[Len(chars)] \in Whitespace THEN TrimChars(SubSeq(chars, 1, Len(chars) - 1))
    ELSE chars

\* The application/x-www-form-urlencoded form of one character, as
\* URLSearchParams serialises it.
FormEncodeChar(c) ==
    CASE c = " " -> "+"
      [] c = "&" -> "%26"
      [] c = "=" -> "%3D"
      [] OTHER -> c

RECURSIVE FormEncode(_)
FormEncode(chars) ==
    IF chars = <<>> THEN "" ELSE FormEncodeChar(Head(chars)) \o FormEncode(Tail(chars))

\* url.searchParams.set(key, value) on the list of pairs of the URL.
SearchParamsSet(params, key, value) ==
    IF \E i \in 1..Len(params) : params[i].key = key
    THEN [i \in 1..Len(params) |-> IF params[i].key = key THEN Entry(key, value) ELSE params[i]]
    ELSE Append(params, Entry(key, value))

\* The forEach of api.ts:108-118 over the entries from the i-th on.
RECURSIVE SearchParams(_, _, _)
SearchParams(query, i, params) ==
    IF i > Len(query) THEN params
    ELSE LET value == query[i].value IN
         IF value.type \in {"undefined", "null"}
         THEN SearchParams(query, i + 1, params)
         ELSE IF Len(TrimChars(StringOf(value))) > 0
              THEN SearchParams(query, i + 1, SearchParamsSet(params, query[i].key, StringOf(value)))
              ELSE SearchParams(query, i + 1, params)

\* The search string of a URL whose searchParams are params.
RECURSIVE SerializeParams(_)
SerializeParams(params) ==
    IF params = <<>> THEN ""
    ELSE params[1].key \o "=" \o FormEncode(params[1].value)
         \o (IF Len(params) > 1 THEN "&" \o SerializeParams(Tail(params)) ELSE "")

Search(params) == IF params = <<>> THEN "" ELSE "?" \o SerializeParams(params)

\* API_BASE_URL with its trailing slash removed (api.ts:17-19, 103).
baseUrl == "https://backend-480236425407.us-central1.run.app"

Paths == {"/books", "loans"}

\* path.startsWith("/") ? path : `/${path}` (api.ts:104)
RelativePaths == {"loans"}
normalizedPath(path) == IF path \in RelativePaths THEN "/" \o path ELSE path

buildUrl(path, query) ==
    baseUrl \o normalizedPath(path)
        \o Search(IF ~query.given THEN <<>> ELSE SearchParams(query.entries, 1, <<>>))

\* buildUrl on its own: every path and query of the model is handed to it.
InitUrl ==
    /\ inMemoryAuthToken = Null
    /\ customAuthTokenProvider = Null
    /\ environment = "browser"
    /\ localStorage = Null
    /\ calls = [i \in Slots |-> Idle]
    /\ event = TokenEvent("init", {})
    /\ history = History(Null, "no", Null)
    /\ route = "/"
    /\ error = Null
    /\ response = NoResponse
    /\ result = NoResult
    /\ args = NoArgs
    /\ returned = NoReturn
    /\ requests = <<>>
    /\ pages = NoPages

BuildUrl(path, query) ==
    /\ args' = [fn |-> "buildUrl", path |-> path, query |-> query]
    /\ returned' = [fn |-> "buildUrl", url |-> buildUrl(path, query)]
    /\ UNCHANGED <<tokenVars, calls, event, history, route, error, response, result,
                   requests, pages>>

NextUrl == \E path \in Paths, query \in Queries : BuildUrl(path, query)

SpecUrl == InitUrl /\ [][NextUrl]_vars

\* The URL C11 states: every entry whose value is not null, undefined or the
\* empty string appears with its stringified, encoded value.
RECURSIVE ClaimedParams(_, _)
ClaimedParams(query, i) ==
    IF i > Len(query) THEN <<>>
    ELSE IF query[i].value.type \in {"undefined", "null"} \/ StringOf(query[i].value) = <<>>
         THEN ClaimedParams(query, i + 1)
         ELSE <<Entry(query[i].key, StringOf(query[i].value))>> \o ClaimedParams(query, i + 1)

\* C11: for every query object passed to api.get, keys whose value is null,
\* undefined or the empty string are omitted from the URL, and every key with
\* a non-empty value (whitespace-only strings, 0 and false included) appears
\* exactly once with its stringified, percent-encoded value.
C11_QueryAsClaimed ==
    (args.fn = "buildUrl" /\ args.query.given) =>
        returned.url = baseUrl \o normalizedPath(args.path)
                           \o Search(ClaimedParams(args.query.entries, 1))

-----------------------------------------------------------------------------
(* The requests the verbs of api hand to fetch (api.ts:215-273).            *)

\* The body argument of a verb: an object with its entries in insertion
\* order, or no body at all.
Payload(entries) == [given |-> TRUE, entries |-> entries]
NoBody == [given |-> FALSE, entries |-> <<>>]

\* JSON.stringify on the value of an entry; the model's payloads hold
\* strings, null and undefined.
StringifyValue(value) ==
    IF value.type = "null" THEN "null" ELSE "\"" \o value.str \o "\""

\* The entries JSON.stringify writes: those whose value is not undefined.
RECURSIVE Written(_)
Written(entries) ==
    IF entries = <<>> THEN <<>>
    ELSE IF Head(entries).value.type = "undefined" THEN Written(Tail(entries))
    ELSE <<Head(entries)>> \o Written(Tail(entries))

RECURSIVE StringifyEntries(_)
StringifyEntries(entries) ==
    IF entries = <<>> THEN ""
    ELSE "\"" \o entries[1].key \o "\":" \o StringifyValue(entries[1].value)
         \o (IF Len(entries) > 1 THEN "," \o StringifyEntries(Tail(entries)) ELSE "")

JSONstringify(entries) == "{" \o StringifyEntries(Written(entries)) \o "}"

\* body !== undefined ? JSON.stringify(body) : undefined (api.ts:232)
RequestBody(body) == IF body.given THEN JSONstringify(body.entries) ELSE Undefined

Methods == {"GET", "POST", "PUT", "PATCH", "DELETE"}

\* What a verb hands to fetch: api.get sends no body and is the only verb
\* that takes a query.
FetchRequest(method, path, query, body, authorization) ==
    [method |-> method,
     url |-> buildUrl(path, IF method = "GET" THEN query ELSE NoQuery),
     authorization |-> authorization,
     body |-> IF method \in {"GET", "DELETE"} THEN Undefined ELSE RequestBody(body),
     cache |-> "no-store"]

\* A deduplicating fetch, which the client does not have.
fetchOnce(log, request) ==
    IF \E k \in 1..Len(log) : log[k] = request THEN log ELSE Append(log, request)

\* fetch(url, init): the network receives the request.
fetch(log, request) == Append(log, request)

\* The verb calls of the request log: their method, path, query and body.
ApiCall(method, path, query, body) ==
    [fn |-> "api", method |-> method, path |-> path, query |-> query, body |-> body]

ApiCalls ==
    { ApiCall("GET", "/books", NoQuery, NoBody),
      ApiCall("GET", "/books", Query(<<Entry("title", QString(<<"x">>))>>), NoBody),
      ApiCall("POST", "/loans",
              NoQuery, Payload(<<Entry("bookId", Prop("string", "b1")),
                                 Entry("memberId", Prop("string", "m1"))>>)),
      ApiCall("POST", "/loans/1/return", NoQuery, NoBody),
      ApiCall("DELETE", "/books/1", NoQuery, NoBody) }

MaxRequests == 3

\* The verb calls made so far, oldest first.
CallLog(log) == [fn |-> "api", log |-> log]

InitRequests ==
    /\ inMemoryAuthToken = Null
    /\ customAuthTokenProvider = Null
    /\ environment \in {"server", "browser"}
    /\ localStorage \in (IF environment = "browser" THEN {Null, "t1"} ELSE {Null})
    /\ calls = [i \in Slots |-> Idle]
    /\ event = TokenEvent("init", {})
    /\ history = History(localStorage, "no", Null)
    /\ route = "/"
    /\ error = Null
    /\ response = NoResponse
    /\ result = NoResult
    /\ args = CallLog(<<>>)
    /\ returned = NoReturn
    /\ requests = <<>>
    /\ pages = NoPages

\* A verb up to `await fetch`: the headers and the URL are built and fetch
\* receives the request.
IssueRequest(i, call) ==
    /\ Len(args.log) < MaxRequests
    /\ calls[i] = Idle
    /\ \A j \in 1..(i - 1) : calls[j] # Idle
    /\ inMemoryAuthToken' = getAuthToken.memory
    /\ calls' = [calls EXCEPT ![i] = Call("api", withAuthHeaders, FALSE)]
    /\ event' = Event("request", "api", withAuthHeaders, ProviderSupplies, history.freshLogin,
                      FALSE, NoResponse, NoResult, getAuthToken.caught)
    /\ history' = AfterGetAuthToken(Null)
    /\ args' = CallLog(Append(args.log, call))
    /\ requests' = fetch(requests, FetchRequest(call.method, call.path, call.query, call.body,
                                                withAuthHeaders))
    /\ UNCHANGED <<customAuthTokenProvider, localStorage, environment, route, error,
                   response, result, returned, pages>>

\* The answers of the request log: a payload, the two 401 shapes.
LogResponses ==
    { Response(200, "application/json", "{\"message\":\"boom\"}", TRUE),
      Response(401, "application/json", "{\"message\":\"boom\"}", TRUE),
      Response(401, "text/plain", "", TRUE) }

NextRequests ==
    \/ \E i \in Slots, call \in ApiCalls : IssueRequest(i, call)
    \/ \E i \in Slots : FetchRejects(i)
    \/ \E i \in Slots, resp \in LogResponses : SettleApi(i, resp)

SpecRequests == InitRequests /\ [][NextRequests]_vars

\* C12: there is no caching or deduplication layer: n client calls produce
\* exactly n requests, each issued with cache disabled (no-store) and with
\* the method and URL of its call, whether the calls are sequential or
\* overlap in time; two identical api.get calls produce two requests.
C12_OneRequestPerCall ==
    /\ Len(requests) = Len(args.log)
    /\ \A k \in 1..Len(requests) :
          /\ requests[k].cache = "no-store"
          /\ requests[k].method = args.log[k].method
          /\ requests[k].url = buildUrl(args.log[k].path, args.log[k].query)

\* Two identical api.get calls overlap in time and fetch has received two
\* equal requests.
C12_Witness ==
    /\ Len(requests) = 2
    /\ args.log[1] = args.log[2] /\ args.log[1].method = "GET"
    /\ requests[1] = requests[2]
    /\ \A i \in Slots : calls[i] # Idle

\* C13: a transport failure makes the api call reject with the error fetch
\* rejected with, unmodified and not wrapped in ApiError, and no request is
\* issued by the settling of a call: nothing is retried after a failure,
\* transport or HTTP.
C13_NoRetry ==
    [][event'.type = "settled" =>
          /\ requests' = requests
          /\ event'.response = NoResponse =>
                /\ event'.outcome = NetworkError
                /\ event'.outcome.name # "ApiError"]_vars

\* A call whose fetch rejected has settled with the network error while the
\* log holds the one request it issued.
C13_Witness ==
    /\ event.type = "settled" /\ event.response = NoResponse
    /\ event.outcome = NetworkError
    /\ Len(requests) = 1 /\ Len(args.log) = 1

-----------------------------------------------------------------------------
(* Further claims about the token and the requests, checked under Spec.     *)

\* C14: the client only surfaces the status code: a response with a non-2xx
\* status, 401 included, leaves the in-memory token, the persistent store and
\* the configured provider exactly as they were when the response arrived.
C14_ErrorResponseLeavesToken ==
    [][(event'.type = "settled" /\ event'.response # NoResponse /\ ~Ok(event'.response)) =>
          /\ inMemoryAuthToken' = inMemoryAuthToken
          /\ localStorage' = localStorage
          /\ customAuthTokenProvider' = customAuthTokenProvider]_vars

\* A call has been answered 401 and the token is still held in memory and in
\* the store.
C14_Witness ==
    /\ event.type = "settled" /\ event.response.status = 401
    /\ event.outcome.name = "ApiError" /\ event.outcome.statusCode = 401
    /\ inMemoryAuthToken = "t1" /\ localStorage = "t1"

\* The token C15 states for a request built now: the provider's value when a
\* provider is configured and returns a non-empty string, otherwise the
\* in-memory token, otherwise the value of the persistent store.
AvailableToken ==
    IF customAuthTokenProvider = "returns p1" THEN "p1"
    ELSE IF inMemoryAuthToken \notin {Null, ""} THEN inMemoryAuthToken
    ELSE localStorage

\* C15: every request (the login request included) carries Authorization:
\* Bearer t if and only if a token is available when the request is built,
\* where t is the provider's value when a provider is configured and returns
\* a non-empty string, otherwise the in-memory token, otherwise the
\* persistent-store value; a provider returning null or empty, or throwing,
\* falls back to the stored token.
C15_HeaderIffToken ==
    [][event'.type = "request" =>
          event'.authorization =
              (IF AvailableToken \in {Null, ""} THEN Undefined ELSE "Bearer " \o AvailableToken)]_vars

\* A request was built while a throwing provider was configured and it
\* carries the stored token.
C15_Witness ==
    /\ event.type = "request" /\ "provider" \in event.caught
    /\ customAuthTokenProvider = "throws"
    /\ event.authorization = "Bearer t1"

-----------------------------------------------------------------------------
(* extractAuthToken on its own: every payload of the model is handed to it. *)

\* What a login payload can hold under one of the candidate keys.
TokenFields ==
    { Missing, Prop("number", "5"), Prop("null", "null"), Prop("string", ""),
      Prop("string", " "), Prop("string", "t1"), Prop("string", "t2") }

LoginPayloads ==
    { JsObject([k \in {"token", "accessToken", "access_token"} |->
                  CASE k = "token" -> a [] k = "accessToken" -> b [] OTHER -> c]) :
        a \in TokenFields, b \in TokenFields, c \in TokenFields }
    \cup {JsUndefined, JsNull, JsString("t1"), JsArray}

InitExtract ==
    /\ inMemoryAuthToken = Null
    /\ customAuthTokenProvider = Null
    /\ environment = "browser"
    /\ localStorage = Null
    /\ calls = [i \in Slots |-> Idle]
    /\ event = TokenEvent("init", {})
    /\ history = History(Null, "no", Null)
    /\ route = "/"
    /\ error = Null
    /\ response = NoResponse
    /\ result = NoResult
    /\ args = NoArgs
    /\ returned = NoReturn
    /\ requests = <<>>
    /\ pages = NoPages

ExtractAuthToken(payload) ==
    /\ args' = [fn |-> "extractAuthToken", payload |-> payload]
    /\ returned' = [fn |-> "extractAuthToken", token |-> extractAuthToken(payload)]
    /\ UNCHANGED <<tokenVars, calls, event, history, route, error, response, result,
                   requests, pages>>

NextExtract == \E payload \in LoginPayloads : ExtractAuthToken(payload)

SpecExtract == InitExtract /\ [][NextExtract]_vars

\* A candidate C16 accepts: a string that is neither empty nor blank.
Usable(field) == field.type = "string" /\ field.str \notin {"", " "}

\* C16: token extraction tries token, accessToken, access_token in that
\* order and returns the first value that is a non-empty string; a candidate
\* that is missing, not a string, empty or whitespace-only is skipped, and
\* when no candidate matches, or the payload is not an object, the result is
\* null.
C16_FirstUsableKey ==
    args.fn = "extractAuthToken" =>
        LET fields == args.payload.props IN
        returned.token =
            IF args.payload.type # "object" THEN Null
            ELSE IF Usable(fields["token"]) THEN fields["token"].str
            ELSE IF Usable(fields["accessToken"]) THEN fields["accessToken"].str
            ELSE IF Usable(fields["access_token"]) THEN fields["access_token"].str
            ELSE Null

\* A payload whose token is blank and whose accessToken is not a string has
\* yielded its access_token.
C16_Witness ==
    /\ args.fn = "extractAuthToken"
    /\ args.payload.props["token"] = Prop("string", " ")
    /\ args.payload.props["accessToken"] = Prop("number", "5")
    /\ args.payload.props["access_token"] = Prop("string", "t2")
    /\ returned.token = "t2"

-----------------------------------------------------------------------------
(* booksApi, librariesApi, membersApi, loansApi (api.ts:293-341): the       *)
(* request each operation hands to its verb.                                *)

\* payload[key]: the value of the entry, undefined when there is none.
RECURSIVE Get(_, _)
Get(entries, key) ==
    IF entries = <<>> THEN Missing
    ELSE IF Head(entries).key = key THEN Head(entries).value
    ELSE Get(Tail(entries), key)

\* delete payload[key]
RECURSIVE Delete(_, _)
Delete(entries, key) ==
    IF entries = <<>> THEN <<>>
    ELSE IF Head(entries).key = key THEN Delete(Tail(entries), key)
    ELSE <<Head(entries)>> \o Delete(Tail(entries), key)

\* A membersApi that deletes the password from the object it was given.
memberPayloadInPlace(data) ==
    IF ~PropTruthy(Get(data, "password"))
    THEN [payload |-> Delete(data, "password"), data |-> Delete(data, "password")]
    ELSE [payload |-> data, data |-> data]

\* membersApi.create / update (api.ts:317-320, 325-328): the payload, a copy
\* of data without a falsy password, and data as the call leaves it.
memberPayload(data) ==
    [payload |-> IF ~PropTruthy(Get(data, "password")) THEN Delete(data, "password") ELSE data,
     data |-> data]

Operations ==
    { "booksApi.getAll", "booksApi.getById", "booksApi.create", "booksApi.update",
      "booksApi.delete",
      "librariesApi.getAll", "librariesApi.getById", "librariesApi.create",
      "librariesApi.update", "librariesApi.delete",
      "membersApi.getAll", "membersApi.getById", "membersApi.create", "membersApi.update",
      "membersApi.delete",
      "loansApi.getAll", "loansApi.getById", "loansApi.create", "loansApi.returnLoan" }

\* A loansApi.returnLoan that sends PUT with a body, which the client does
\* not.
returnLoanWithPut(id) ==
    ApiCall("PUT", "/loans/" \o id, NoQuery, Payload(<<Entry("returned", Prop("string", "yes"))>>))

\* loansApi.returnLoan (api.ts:340)
returnLoan(id) == ApiCall("POST", "/loans/" \o id \o "/return", NoQuery, NoBody)

\* The verb call an operation makes with its arguments.
resourceCall(operation, id, data, filters) ==
    CASE operation = "booksApi.getAll" -> ApiCall("GET", "/books", filters, NoBody)
      [] operation = "booksApi.getById" -> ApiCall("GET", "/books/" \o id, NoQuery, NoBody)
      [] operation = "booksApi.create" -> ApiCall("POST", "/books", NoQuery, Payload(data))
      [] operation = "booksApi.update" -> ApiCall("PATCH", "/books/" \o id, NoQuery, Payload(data))
      [] operation = "booksApi.delete" -> ApiCall("DELETE", "/books/" \o id, NoQuery, NoBody)
      [] operation = "librariesApi.getAll" -> ApiCall("GET", "/libraries", NoQuery, NoBody)
      [] operation = "librariesApi.getById" -> ApiCall("GET", "/libraries/" \o id, NoQuery, NoBody)
      [] operation = "librariesApi.create" -> ApiCall("POST", "/libraries", NoQuery, Payload(data))
      [] operation = "librariesApi.update" ->
            ApiCall("PATCH", "/libraries/" \o id, NoQuery, Payload(data))
      [] operation = "librariesApi.delete" ->
            ApiCall("DELETE", "/libraries/" \o id, NoQuery, NoBody)
      [] operation = "membersApi.getAll" -> ApiCall("GET", "/members", NoQuery, NoBody)
      [] operation = "membersApi.getById" -> ApiCall("GET", "/members/" \o id, NoQuery, NoBody)
      [] operation = "membersApi.create" ->
            ApiCall("POST", "/members", NoQuery, Payload(memberPayload(data).payload))
      [] operation = "membersApi.update" ->
            ApiCall("PUT", "/members/" \o id, NoQuery, Payload(memberPayload(data).payload))
      [] operation = "membersApi.delete" -> ApiCall("DELETE", "/members/" \o id, NoQuery, NoBody)
      [] operation = "loansApi.getAll" -> ApiCall("GET", "/loans", filters, NoBody)
      [] operation = "loansApi.getById" -> ApiCall("GET", "/loans/" \o id, NoQuery, NoBody)
      [] operation = "loansApi.create" -> ApiCall("POST", "/loans", NoQuery, Payload(data))
      [] OTHER -> returnLoan(id)

\* The object the caller passed, as the operation leaves it.
dataAfter(operation, data) ==
    IF operation \in {"membersApi.create", "membersApi.update"}
    THEN memberPayload(data).data ELSE data

Ids == {"1", "7"}

Passwords ==
    { Prop("undefined", "undefined"), Prop("null", "null"), Prop("string", ""),
      Prop("string", " "), Prop("string", "secret") }

\* The objects handed to create and update: member data with and without a
\* password, loan data, book data.
DataObjects ==
    { <<Entry("name", Prop("string", "Ana")), Entry("email", Prop("string", "ana@x.io"))>>,
      <<Entry("bookId", Prop("string", "b1")), Entry("memberId", Prop("string", "m1"))>>,
      <<Entry("title", Prop("string", "Dune"))>>,
      <<>> }
    \cup { <<Entry("name", Prop("string", "Ana")), Entry("password", password),
             Entry("email", Prop("string", "ana@x.io"))>> : password \in Passwords }
    \cup { <<Entry("password", password)>> : password \in Passwords }

Filters == {NoQuery, Query(<<Entry("title", QString(<<"x">>))>>)}

InitResources ==
    /\ inMemoryAuthToken = Null
    /\ customAuthTokenProvider = Null
    /\ environment = "browser"
    /\ localStorage = Null
    /\ calls = [i \in Slots |-> Idle]
    /\ event = TokenEvent("init", {})
    /\ history = History(Null, "no", Null)
    /\ route = "/"
    /\ error = Null
    /\ response = NoResponse
    /\ result = NoResult
    /\ args = NoArgs
    /\ returned = NoReturn
    /\ requests = <<>>
    /\ pages = NoPages

\* An operation up to the request its verb hands to fetch.
ResourceCall(operation, id, data, filters) ==
    LET call == resourceCall(operation, id, data, filters) IN
    /\ args' = [fn |-> operation, id |-> id, data |-> data, filters |-> filters]
    /\ returned' = [fn |-> operation,
                    request |-> FetchRequest(call.method, call.path, call.query, call.body,
                                             withAuthHeaders),
                    data |-> dataAfter(operation, data)]
    /\ UNCHANGED <<tokenVars, calls, event, history, route, error, response, result,
                   requests, pages>>

NextResources ==
    \E operation \in Operations, id \in Ids, data \in DataObjects, filters \in Filters :
        ResourceCall(operation, id, data, filters)

SpecResources == InitResources /\ [][NextResources]_vars

\* The payload C17 states: data without its password when that is empty or
\* otherwise falsy, data itself when it is not.
ClaimedMemberPayload(data) ==
    IF Get(data, "password").type = "string" /\ Get(data, "password").str # ""
    THEN data
    ELSE SelectSeq(data, LAMBDA entry : entry.key # "password")

\* C17: membersApi.create and membersApi.update never send a payload with an
\* empty or otherwise falsy password field: the field is removed before
\* sending, a non-empty password is sent unchanged, all other fields are sent
\* unchanged, and the caller's input object is not modified.
C17_PasswordStripped ==
    args.fn \in {"membersApi.create", "membersApi.update"} =>
        /\ returned.request.body = JSONstringify(ClaimedMemberPayload(args.data))
        /\ returned.data = args.data

\* membersApi.update was given an empty password between two other fields
\* and sent the two other fields only.
C17_Witness ==
    /\ args.fn = "membersApi.update"
    /\ Get(args.data, "password") = Prop("string", "")
    /\ returned.request.body = "{\"name\":\"Ana\",\"email\":\"ana@x.io\"}"
    /\ returned.data = args.data

\* C18: each resource operation maps to the verb and path of the interface
\* table: book update is PATCH /books/:id, library update PATCH
\* /libraries/:id, member update PUT /members/:id, loan return POST
\* /loans/:id/return with no body, loan creation POST /loans with the body
\* {bookId, memberId}.
C18_VerbsAndPaths ==
    LET request == returned.request
        Is(method, path) ==
            /\ request.method = method
            /\ request.url = baseUrl \o path
    IN
    /\ args.fn = "booksApi.update" => Is("PATCH", "/books/" \o args.id)
    /\ args.fn = "librariesApi.update" => Is("PATCH", "/libraries/" \o args.id)
    /\ args.fn = "membersApi.update" => Is("PUT", "/members/" \o args.id)
    /\ args.fn = "loansApi.returnLoan" =>
          Is("POST", "/loans/" \o args.id \o "/return") /\ request.body = Undefined
    /\ args.fn = "loansApi.create" =>
          /\ Is("POST", "/loans")
          /\ request.body = JSONstringify(args.data)

\* loansApi.create was given {bookId, memberId} and sent it to POST /loans.
C18_Witness ==
    /\ args.fn = "loansApi.create"
    /\ returned.request.method = "POST"
    /\ returned.request.url = baseUrl \o "/loans"
    /\ returned.request.body = "{\"bookId\":\"b1\",\"memberId\":\"m1\"}"

-----------------------------------------------------------------------------
(* A further claim about handleResponse, checked under SpecResponse.        *)

\* C19: a body that is declared JSON but fails to parse never makes the call
\* reject with a parse error: on a non-2xx status the ApiError message is the
\* trimmed raw text, or HTTP <status> when the text is blank, and on a 2xx
\* status the call resolves with the raw text.
C19_UnparsedBodyFallsBack ==
    (response.readable /\ response.body # "" /\ IsJson(response.contentType)
        /\ ~JSONparse(response.body).ok) =>
        IF response.status \in 200..299
        THEN result.kind = "resolve" /\ result.value = JsString(response.body)
        ELSE /\ result.kind = "reject" /\ result.name = "ApiError"
             /\ result.statusCode = response.status
             /\ result.message =
                    IF Trim(response.body) # "" THEN Trim(response.body)
                    ELSE "HTTP " \o ToString(response.status)

\* A 500 declared JSON whose body " oops " does not parse has rejected with
\* the message oops.
C19_Witness ==
    /\ response.status = 500 /\ response.contentType = "application/json"
    /\ response.body = " oops " /\ response.readable
    /\ result.name = "ApiError" /\ result.message = "oops"

-----------------------------------------------------------------------------
(* The list pages and their calls: LibrariesPage, BooksPage and             *)
(* LoansPageContent load their data in an effect when they mount, and the   *)
(* last two offer an action on a row (MembersPage is written as BooksPage   *)
(* is).  A page is rendered once: a later visit renders a new component     *)
(* with a state of its own.                                                 *)

PageNames == {"LibrariesPage", "BooksPage", "LoansPageContent"}

\* The loads started by the effects.  fetchBooks and loadData await a
\* Promise.all of several api calls built in one go; such a group is one
\* call here, answered by the response that decides it: the first failure,
\* or the last success.
Loaders ==
    { "LibrariesPage.loadLibraries", "BooksPage.fetchBooks", "LoansPageContent.loadData" }

\* The handlers of the row actions, past their confirmation dialog.
RowActions ==
    { "BooksPage.handleDelete", "LoansPageContent.handleReturnLoan" }

PageOf(handler) ==
    CASE handler \in {"LibrariesPage.loadLibraries"} -> "LibrariesPage"
      [] handler \in {"BooksPage.fetchBooks", "BooksPage.handleDelete"} -> "BooksPage"
      [] OTHER -> "LoansPageContent"

LoaderOf(page) == CHOOSE handler \in Loaders : PageOf(handler) = page

\* A component: where it is in its life (new, mounted, unmounted) and the
\* state it holds with useState.
Component(lifecycle, err, isLoading, items) ==
    [lifecycle |-> lifecycle, error |-> err, isLoading |-> isLoading, items |-> items]

\* useState(null), useState(true), useState([])
NewComponent == Component("new", Null, TRUE, "empty")

\* Handlers that test isActive / isMountedRef.current after their await.
GuardsNothing(handler) == FALSE

\* The handlers that return after their await when the component is gone:
\* `if (!isActive) return`, `if (!isMountedRef.current) return`.
Guards(handler) == handler \in Loaders

\* The answers the pages meet.
PageResponses ==
    { Response(200, "application/json", "[1]", TRUE),
      Response(401, "application/json", "{\"message\":\"boom\"}", TRUE) }

InitMount ==
    /\ inMemoryAuthToken = Null
    /\ customAuthTokenProvider = Null
    /\ environment = "browser"
    /\ localStorage \in {Null, "t1"}
    /\ calls = [i \in Slots |-> Idle]
    /\ event = TokenEvent("init", {})
    /\ history = History(localStorage, "no", Null)
    /\ route = "/"
    /\ error = Null
    /\ response = NoResponse
    /\ result = NoResult
    /\ args = NoArgs
    /\ returned = NoReturn
    /\ requests = <<>>
    /\ pages = [page \in PageNames |-> NewComponent]

\* The request of a handler leaves: the headers are built, which reads the
\* token.
PageRequest(i, handler) ==
    /\ inMemoryAuthToken' = getAuthToken.memory
    /\ calls' = [calls EXCEPT ![i] = Call(handler, withAuthHeaders, FALSE)]
    /\ event' = Event("request", handler, withAuthHeaders, ProviderSupplies, history.freshLogin,
                      FALSE, NoResponse, NoResult, getAuthToken.caught)
    /\ history' = AfterGetAuthToken(Null)

\* A page mounts and its effect starts the load: setIsLoading(true),
\* setError(null), then the awaited call.
Mount(i, page) ==
    /\ pages[page].lifecycle = "new"
    /\ calls[i] = Idle
    /\ \A j \in 1..(i - 1) : calls[j] # Idle
    /\ PageRequest(i, LoaderOf(page))
    /\ pages' = [pages EXCEPT ![page] = Component("mounted", Null, TRUE, pages[page].items)]
    /\ UNCHANGED <<customAuthTokenProvider, localStorage, environment, route, error,
                   response, result, args, returned, requests>>

\* The user leaves the page: the component unmounts and the cleanup of its
\* effect runs (isActive = false, isMountedRef.current = false).
Unmount(page) ==
    /\ pages[page].lifecycle = "mounted"
    /\ pages' = [pages EXCEPT ![page].lifecycle = "unmounted"]
    /\ event' = TokenEvent("unmount", {})
    /\ UNCHANGED <<tokenVars, calls, history, route, error, response, result,
                   args, returned, requests>>

\* The user confirms a row action on a mounted page.  handleDelete sets
\* isLoading and clears the error before its call; handleReturnLoan does not.
RowAction(i, handler) ==
    /\ pages[PageOf(handler)].lifecycle = "mounted"
    /\ calls[i] = Idle
    /\ \A j \in 1..(i - 1) : calls[j] # Idle
    /\ PageRequest(i, handler)
    /\ pages' = IF handler = "LoansPageContent.handleReturnLoan" THEN pages
                ELSE [pages EXCEPT ![PageOf(handler)].error = Null,
                                   ![PageOf(handler)].isLoading = TRUE]
    /\ UNCHANGED <<customAuthTokenProvider, localStorage, environment, route, error,
                   response, result, args, returned, requests>>

\* The call of a handler settles, with resp or with a network failure
\* (NoResponse), and the handler runs to its end.
PageSettle(i, resp) ==
    LET handler == calls[i].op
        page == PageOf(handler)
        gone == pages[page].lifecycle # "mounted"
        outcome == IF resp = NoResponse THEN NetworkError ELSE handleResponse(resp)
        unauthorized == outcome.name = "ApiError" /\ outcome.statusCode = 401
        settled == Event("settled", handler, Undefined, FALSE, Null, FALSE, resp, outcome,
                         IF resp = NoResponse THEN {} ELSE ResponseCaught(resp))
    IN
    /\ handler \in Loaders \cup RowActions
    /\ IF Guards(handler) /\ gone
       THEN \* the guard after the await returns
            /\ calls' = [calls EXCEPT ![i] = Idle]
            /\ event' = settled
            /\ UNCHANGED <<inMemoryAuthToken, localStorage, history, route, pages>>
       ELSE IF outcome.kind = "resolve" /\ handler = "LoansPageContent.handleReturnLoan"
       THEN \* await loadData(): it returns at once when the page is gone,
            \* and starts the load again when it is not
            IF gone
            THEN /\ calls' = [calls EXCEPT ![i] = Idle]
                 /\ event' = settled
                 /\ UNCHANGED <<inMemoryAuthToken, localStorage, history, route, pages>>
            ELSE /\ PageRequest(i, "LoansPageContent.loadData")
                 /\ pages' = [pages EXCEPT ![page].error = Null, ![page].isLoading = TRUE]
                 /\ UNCHANGED <<localStorage, route>>
       ELSE /\ calls' = [calls EXCEPT ![i] = Idle]
            /\ event' = settled
            /\ IF outcome.kind = "resolve"
               THEN /\ pages' = [pages EXCEPT
                                   ![page].items = IF handler \in Loaders THEN "loaded"
                                                   ELSE "filtered",
                                   ![page].isLoading = FALSE]
                    /\ UNCHANGED <<inMemoryAuthToken, localStorage, history, route>>
               ELSE IF unauthorized
               THEN /\ persistAuthToken(Null)
                    /\ history' = History(Null, "yes", Null)
                    /\ route' = "/auth/login"
                    /\ pages' = [pages EXCEPT
                                   ![page].error = SessionExpired,
                                   ![page].items =
                                       IF handler = "BooksPage.handleDelete"
                                       THEN pages[page].items ELSE "empty",
                                   ![page].isLoading =
                                       IF handler = "LoansPageContent.handleReturnLoan"
                                       THEN pages[page].isLoading ELSE FALSE]
               ELSE /\ pages' = [pages EXCEPT
                                   ![page].error = outcome.message,
                                   ![page].items =
                                       IF handler \in Loaders THEN "empty" ELSE pages[page].items,
                                   ![page].isLoading =
                                       IF handler = "LoansPageContent.handleReturnLoan"
                                       THEN pages[page].isLoading ELSE FALSE]
                    /\ UNCHANGED <<inMemoryAuthToken, localStorage, history, route>>
    /\ UNCHANGED <<customAuthTokenProvider, environment, error, response, result,
                   args, returned, requests>>

NextMount ==
    \/ \E i \in Slots, page \in PageNames : Mount(i, page)
    \/ \E page \in PageNames : Unmount(page)
    \/ \E i \in Slots, handler \in RowActions : RowAction(i, handler)
    \/ \E i \in Slots, resp \in PageResponses \cup {NoResponse} : PageSettle(i, resp)

SpecMount == InitMount /\ [][NextMount]_vars

\* C20 (amended): once a page component has been unmounted, no response or
\* failure of its load (loadLibraries, fetchBooks, loadData)
\* that was still in flight changes the component's state, the token or the
\* route.
C20_LoadsAreGuarded ==
    [][(event'.type = "settled" /\ event'.op \in Loaders
            /\ pages[PageOf(event'.op)].lifecycle = "unmounted") =>
          /\ pages' = pages
          /\ inMemoryAuthToken' = inMemoryAuthToken
          /\ localStorage' = localStorage
          /\ route' = route]_vars

\* The load of an unmounted page has been answered 401 and the page still
\* holds the state it had, the client its token.
C20_Witness ==
    /\ event.type = "settled" /\ event.op = "BooksPage.fetchBooks"
    /\ event.outcome.name = "ApiError" /\ event.outcome.statusCode = 401
    /\ pages["BooksPage"] = Component("unmounted", Null, TRUE, "empty")
    /\ inMemoryAuthToken = "t1" /\ route = "/"

\* C20 as stated: once a page component has been unmounted, no response or
\* failure of a request that was still in flight changes that component's
\* state, for the loads and for handleReturnLoan and handleDelete alike.
C20_AsClaimed ==
    [][\A page \in PageNames :
          pages[page].lifecycle = "unmounted" => pages'[page] = pages[page]]_vars

-----------------------------------------------------------------------------
(* The loans page (loans-page-content.tsx): loadData fans out four calls    *)
(* and fans their answers in with Promise.all; handleReturnLoan returns a   *)
(* loan and loads the data again.  A list is known by the load it came      *)
(* from.                                                                    *)

Resources == {"libraries", "loans", "books", "members"}

\* The load a list came from; NoLoad for the empty list.
NoLoad == 0
Lists(libraries, loans, books, members) ==
    [libraries |-> libraries, loans |-> loans, books |-> books, members |-> members]

\* setLibraries([]), setLoans([]), setBooks([]), setMembers([])
EmptyLists == Lists(NoLoad, NoLoad, NoLoad, NoLoad)

\* A page that drops the loans and keeps the other lists when a load fails.
listsAfterKeepingOnFailure(lists, load, succeeded) ==
    IF succeeded THEN Lists(load, load, load, load)
    ELSE [lists EXCEPT !.loans = NoLoad]

\* The four lists after a load has settled (loans-page-content.tsx:52-55,
\* 31-34, 70-73).
listsAfter(lists, load, succeeded) ==
    IF succeeded THEN Lists(load, load, load, load) ELSE EmptyLists

\* The loans page: where it is in its life, its error, isLoading, the lists
\* it displays, and how many loads it has started.
LoansPage(lifecycle, err, isLoading, lists, started) ==
    [lifecycle |-> lifecycle, error |-> err, isLoading |-> isLoading, lists |-> lists,
     started |-> started]

\* A call of the page awaiting its answers: handleReturnLoan awaits one, a
\* load the four of its fan-out; answers tells which have arrived.
PageCall(op, authorization, load, answers) ==
    [op |-> op, authorization |-> authorization, touched |-> FALSE, load |-> load,
     answers |-> answers]
NoAnswers == [resource \in Resources |-> "pending"]
NoPageCall == PageCall("idle", Undefined, NoLoad, NoAnswers)

MaxLoads == 3

InitLoans ==
    /\ inMemoryAuthToken = Null
    /\ customAuthTokenProvider = Null
    /\ environment = "browser"
    /\ localStorage \in {Null, "t1"}
    /\ calls = [i \in Slots |-> NoPageCall]
    /\ event = TokenEvent("init", {})
    /\ history = History(localStorage, "no", Null)
    /\ route = "/"
    /\ error = Null
    /\ response = NoResponse
    /\ result = NoResult
    /\ args = NoArgs
    /\ returned = NoReturn
    /\ requests = <<>>
    /\ pages = LoansPage("new", Null, TRUE, EmptyLists, 0)

\* loadData up to its await (loans-page-content.tsx:39-50): the flags are
\* set and the four requests leave, their headers built one after another.
StartLoad(i) ==
    /\ inMemoryAuthToken' = getAuthToken.memory
    /\ calls' = [calls EXCEPT ![i] =
                    PageCall("LoansPageContent.loadData", withAuthHeaders,
                             pages.started + 1, NoAnswers)]
    /\ history' = AfterGetAuthToken(Null)
    /\ pages' = [pages EXCEPT !.lifecycle = "mounted", !.error = Null, !.isLoading = TRUE,
                              !.started = pages.started + 1]

\* The page mounts and its effect calls loadData.
MountLoans(i) ==
    /\ pages.lifecycle = "new"
    /\ calls[i] = NoPageCall
    /\ \A j \in 1..(i - 1) : calls[j] # NoPageCall
    /\ StartLoad(i)
    /\ event' = Event("request", "LoansPageContent.loadData", withAuthHeaders, ProviderSupplies,
                      history.freshLogin, FALSE, NoResponse, NoResult, getAuthToken.caught)
    /\ UNCHANGED <<customAuthTokenProvider, localStorage, environment, route, error,
                   response, result, args, returned, requests>>

\* The user leaves the page.
UnmountLoans ==
    /\ pages.lifecycle = "mounted"
    /\ pages' = [pages EXCEPT !.lifecycle = "unmounted"]
    /\ event' = TokenEvent("unmount", {})
    /\ UNCHANGED <<tokenVars, calls, history, route, error, response, result,
                   args, returned, requests>>

\* The user presses the return button of a loan: the list is rendered, so
\* the page is not loading and displays loans.
ReturnLoan(i) ==
    /\ pages.lifecycle = "mounted"
    /\ ~pages.isLoading
    /\ pages.lists.loans # NoLoad
    /\ pages.started < MaxLoads
    /\ calls[i] = NoPageCall
    /\ \A j \in 1..(i - 1) : calls[j] # NoPageCall
    /\ inMemoryAuthToken' = getAuthToken.memory
    /\ calls' = [calls EXCEPT ![i] =
                    PageCall("LoansPageContent.handleReturnLoan", withAuthHeaders,
                             NoLoad, NoAnswers)]
    /\ event' = Event("request", "LoansPageContent.handleReturnLoan", withAuthHeaders,
                      ProviderSupplies, history.freshLogin, FALSE, NoResponse, NoResult,
                      getAuthToken.caught)
    /\ history' = AfterGetAuthToken(Null)
    /\ UNCHANGED <<customAuthTokenProvider, localStorage, environment, route, error,
                   response, result, args, returned, requests, pages>>

\* The answers of the loans page.
LoanResponses ==
    { Response(200, "application/json", "[1]", TRUE),
      Response(401, "application/json", "{\"message\":\"boom\"}", TRUE) }

\* handleUnauthorized (loans-page-content.tsx:29-37), and the other branch
\* of a catch block: the page after a failure.
AfterFailure(i, outcome, clearsLists) ==
    IF outcome.name = "ApiError" /\ outcome.statusCode = 401
    THEN /\ persistAuthToken(Null)
         /\ history' = History(Null, "yes", Null)
         /\ route' = "/auth/login"
         /\ pages' = [pages EXCEPT !.error = SessionExpired,
                                   !.lists = listsAfter(pages.lists, calls[i].load, FALSE),
                                   !.isLoading = IF clearsLists THEN FALSE ELSE pages.isLoading]
    ELSE /\ pages' = [pages EXCEPT !.error = outcome.message,
                                   !.lists = IF clearsLists
                                             THEN listsAfter(pages.lists, calls[i].load, FALSE)
                                             ELSE pages.lists,
                                   !.isLoading = IF clearsLists THEN FALSE ELSE pages.isLoading]
         /\ UNCHANGED <<inMemoryAuthToken, localStorage, history, route>>

\* The call of handleReturnLoan settles: on success loadData runs again
\* (and returns at once when the page is gone), on failure the catch block.
ReturnSettles(i, resp) ==
    LET outcome == IF resp = NoResponse THEN NetworkError ELSE handleResponse(resp) IN
    /\ calls[i].op = "LoansPageContent.handleReturnLoan"
    /\ event' = Event("settled", calls[i].op, Undefined, FALSE, Null, FALSE, resp, outcome,
                      IF resp = NoResponse THEN {} ELSE ResponseCaught(resp))
    /\ IF outcome.kind = "resolve"
       THEN IF pages.lifecycle = "mounted"
            THEN StartLoad(i) /\ UNCHANGED <<localStorage, route>>
            ELSE /\ calls' = [calls EXCEPT ![i] = NoPageCall]
                 /\ UNCHANGED <<inMemoryAuthToken, localStorage, history, route, pages>>
       ELSE /\ calls' = [calls EXCEPT ![i] = NoPageCall]
            /\ AfterFailure(i, outcome, FALSE)
    /\ UNCHANGED <<customAuthTokenProvider, environment, error, response, result,
                   args, returned, requests>>

\* One of the four answers of a load arrives.  Promise.all rejects with the
\* first failure and resolves with the last success; loadData then runs to
\* its end, unless the page is gone.
LoadAnswer(i, resource, resp) ==
    LET outcome == IF resp = NoResponse THEN NetworkError ELSE handleResponse(resp)
        answers == [calls[i].answers EXCEPT ![resource] = "ok"]
        settles == outcome.kind = "reject" \/ \A r \in Resources : answers[r] = "ok"
    IN
    /\ calls[i].op = "LoansPageContent.loadData"
    /\ calls[i].answers[resource] = "pending"
    /\ event' = Event(IF settles THEN "settled" ELSE "answer", calls[i].op, Undefined, FALSE,
                      Null, FALSE, resp, outcome,
                      IF resp = NoResponse THEN {} ELSE ResponseCaught(resp))
    /\ IF ~settles
       THEN /\ calls' = [calls EXCEPT ![i].answers = answers]
            /\ UNCHANGED <<inMemoryAuthToken, localStorage, history, route, pages>>
       ELSE /\ calls' = [calls EXCEPT ![i] = NoPageCall]
            /\ IF pages.lifecycle # "mounted"
               THEN UNCHANGED <<inMemoryAuthToken, localStorage, history, route, pages>>
               ELSE IF outcome.kind = "resolve"
               THEN /\ pages' = [pages EXCEPT
                                   !.lists = listsAfter(pages.lists, calls[i].load, TRUE),
                                   !.isLoading = FALSE]
                    /\ UNCHANGED <<inMemoryAuthToken, localStorage, history, route>>
               ELSE AfterFailure(i, outcome, TRUE)
    /\ UNCHANGED <<customAuthTokenProvider, environment, error, response, result,
                   args, returned, requests>>

NextLoans ==
    \/ \E i \in Slots : MountLoans(i)
    \/ UnmountLoans
    \/ \E i \in Slots : ReturnLoan(i)
    \/ \E i \in Slots, resp \in LoanResponses \cup {NoResponse} : ReturnSettles(i, resp)
    \/ \E i \in Slots, resource \in Resources, resp \in LoanResponses \cup {NoResponse} :
          LoadAnswer(i, resource, resp)

SpecLoans == InitLoans /\ [][NextLoans]_vars

\* C21: on the loans page the four displayed collections always come from
\* one and the same loadData invocation or are all empty: a load in which one
\* of the four requests fails displays none of the other three results, and
\* no reachable state mixes lists from two loads.
C21_ListsFromOneLoad ==
    /\ pages.lists.libraries = pages.lists.loans
    /\ pages.lists.loans = pages.lists.books
    /\ pages.lists.books = pages.lists.members
    /\ (event.type = "settled" /\ event.op = "LoansPageContent.loadData"
            /\ event.outcome.kind = "reject" /\ pages.lifecycle = "mounted") =>
          pages.lists = EmptyLists

\* A load failed on its last answer, after three had arrived, while the page
\* displayed the lists of an earlier load: the page displays nothing.
C21_Witness ==
    /\ event.type = "settled" /\ event.op = "LoansPageContent.loadData"
    /\ event.outcome.kind = "reject"
    /\ pages.lifecycle = "mounted" /\ pages.started = 2
    /\ pages.lists = EmptyLists

\* C25: when two loadData invocations overlap, the data finally displayed is
\* that of the invocation started last, and isLoading is true for as long as
\* any load is still in flight.
C25_LastLoadWins ==
    pages.lifecycle = "mounted" =>
        /\ (\E i \in Slots : calls[i].op = "LoansPageContent.loadData") => pages.isLoading
        /\ ((\A i \in Slots : calls[i] = NoPageCall) /\ pages.lists # EmptyLists) =>
              pages.lists = Lists(pages.started, pages.started, pages.started, pages.started)

-----------------------------------------------------------------------------
(* The forms with a submit guard: EditBookForm, EditMemberForm,             *)
(* EditLibraryForm and CreateLibraryForm.  One form is rendered at a time.  *)

Forms == {"EditBookForm", "EditMemberForm", "EditLibraryForm", "CreateLibraryForm"}

\* The fields handleSubmit checks, in the order it checks them.
RequiredFields(form) ==
    CASE form = "EditBookForm" -> <<"title", "author", "libraryId">>
      [] form = "EditMemberForm" -> <<"name", "email">>
      [] form = "EditLibraryForm" -> <<"name">>
      [] OTHER -> <<"name", "address", "openingHours">>

\* What the user can leave in a field: a text input holds any text, the
\* library select one of its options.
FieldValues(field) == IF field = "libraryId" THEN {"", "lib1"} ELSE {"", " ", "x"}

\* The message of the check of a field.
RequiredMessage(form, field) ==
    CASE field = "title" -> "El título es obligatorio"
      [] field = "author" -> "El autor es obligatorio"
      [] field = "libraryId" -> "Selecciona una biblioteca para el libro"
      [] field = "email" -> "El correo electrónico es obligatorio"
      [] field = "address" -> "La dirección es obligatoria"
      [] field = "openingHours" -> "El horario de atención es obligatorio"
      [] OTHER -> "El nombre es obligatorio"

\* Whether the check of a field fails: text is trimmed first, the library
\* id is taken as it is.
FailsCheck(field, value) == IF field = "libraryId" THEN value = "" ELSE Trim(value) = ""

\* The first required field whose check fails, from the i-th on; Null when
\* every check passes.
RECURSIVE FirstFailing(_, _, _)
FirstFailing(form, fields, i) ==
    IF i > Len(RequiredFields(form)) THEN Null
    ELSE IF FailsCheck(RequiredFields(form)[i], fields[RequiredFields(form)[i]])
         THEN RequiredFields(form)[i]
         ELSE FirstFailing(form, fields, i + 1)

\* Where a form sends the router after a save.
SavedRoute(form) ==
    CASE form = "EditBookForm" -> "/books"
      [] form = "EditMemberForm" -> "/members"
      [] OTHER -> "/libraries"

\* A rendered form: its fields, its saving flag and its error.
Form(form, fields, isSaving, err) ==
    [form |-> form, fields |-> fields, isSaving |-> isSaving, error |-> err]

\* A handleSubmit without the `if (isSaving) return` at its top.
submitGuardOff(isSaving) == FALSE

\* `if (isSaving) return` / `if (isSubmitting) return`
submitGuard(isSaving) == isSaving

\* A handleSubmit whose checks let every value through.
firstFailingNone(form, fields) == Null

\* The checks of handleSubmit on the fields.
firstFailing(form, fields) == FirstFailing(form, fields, 1)

InitForms ==
    /\ inMemoryAuthToken = Null
    /\ customAuthTokenProvider = Null
    /\ environment = "browser"
    /\ localStorage \in {Null, "t1"}
    /\ calls = [i \in Slots |-> Idle]
    /\ event = TokenEvent("init", {})
    /\ history = History(localStorage, "no", Null)
    /\ route = "/"
    /\ error = Null
    /\ response = NoResponse
    /\ result = NoResult
    /\ args = NoArgs
    /\ returned = NoReturn
    /\ requests = <<>>
    /\ \E form \in Forms :
          pages = Form(form,
                       [k \in {RequiredFields(form)[i] : i \in 1..Len(RequiredFields(form))} |->
                           IF form = "CreateLibraryForm" THEN ""
                           ELSE IF k = "libraryId" THEN "lib1" ELSE "x"],
                       FALSE, Null)

\* handleInputChange: the inputs are disabled while the form is saving.
ChangeField(field, value) ==
    /\ ~pages.isSaving
    /\ field \in DOMAIN pages.fields
    /\ value \in FieldValues(field)
    /\ pages' = [pages EXCEPT !.fields[field] = value]
    /\ event' = TokenEvent("change", {})
    /\ UNCHANGED <<tokenVars, calls, history, route, error, response, result,
                   args, returned, requests>>

\* handleSubmit up to its await: the guard, the checks, and the request.
Submit(i) ==
    LET failing == firstFailing(pages.form, pages.fields) IN
    /\ calls[i] = Idle
    /\ \A j \in 1..(i - 1) : calls[j] # Idle
    /\ IF submitGuard(pages.isSaving)
       THEN /\ event' = TokenEvent("submit ignored", {})
            /\ UNCHANGED <<inMemoryAuthToken, calls, history, pages>>
       ELSE IF failing # Null
       THEN /\ event' = TokenEvent("submit refused", {})
            /\ pages' = [pages EXCEPT !.error = RequiredMessage(pages.form, failing),
                                      !.isSaving = FALSE]
            /\ UNCHANGED <<inMemoryAuthToken, calls, history>>
       ELSE /\ event' = Event("request", pages.form, withAuthHeaders, ProviderSupplies,
                              history.freshLogin, FALSE, NoResponse, NoResult,
                              getAuthToken.caught)
            /\ inMemoryAuthToken' = getAuthToken.memory
            /\ calls' = [calls EXCEPT ![i] = Call(pages.form, withAuthHeaders, FALSE)]
            /\ history' = AfterGetAuthToken(Null)
            /\ pages' = [pages EXCEPT !.error = Null, !.isSaving = TRUE]
    /\ UNCHANGED <<customAuthTokenProvider, localStorage, environment, route, error,
                   response, result, args, returned, requests>>

\* The answers the forms meet.
FormResponses ==
    { Response(200, "application/json", "{\"message\":\"boom\"}", TRUE),
      Response(401, "application/json", "{\"message\":\"boom\"}", TRUE),
      Response(500, "text/plain", " oops ", TRUE) }

\* The rest of handleSubmit: the try block, the catch block, the finally.
SaveSettles(i, resp) ==
    LET outcome == IF resp = NoResponse THEN NetworkError ELSE handleResponse(resp) IN
    /\ calls[i].op \in Forms
    /\ calls' = [calls EXCEPT ![i] = Idle]
    /\ event' = Event("settled", calls[i].op, Undefined, FALSE, Null, FALSE, resp, outcome,
                      IF resp = NoResponse THEN {} ELSE ResponseCaught(resp))
    /\ IF outcome.kind = "resolve"
       THEN /\ route' = SavedRoute(pages.form)
            /\ pages' = [pages EXCEPT !.isSaving = FALSE]
            /\ UNCHANGED <<inMemoryAuthToken, localStorage, history>>
       ELSE IF outcome.name = "ApiError" /\ outcome.statusCode = 401
       THEN /\ persistAuthToken(Null)
            /\ history' = History(Null, "yes", Null)
            /\ route' = "/auth/login"
            /\ pages' = [pages EXCEPT !.error = SessionExpired, !.isSaving = FALSE]
       ELSE /\ pages' = [pages EXCEPT !.error = outcome.message, !.isSaving = FALSE]
            /\ UNCHANGED <<inMemoryAuthToken, localStorage, history, route>>
    /\ UNCHANGED <<customAuthTokenProvider, environment, error, response, result,
                   args, returned, requests>>

NextForms ==
    \/ \E field \in {"title", "author", "libraryId", "name", "email", "address", "openingHours"},
          value \in {"", " ", "x", "lib1"} : ChangeField(field, value)
    \/ \E i \in Slots : Submit(i)
    \/ \E i \in Slots, resp \in FormResponses \cup {NoResponse} : SaveSettles(i, resp)

SpecForms == InitForms /\ [][NextForms]_vars

\* Whether a required field of the form is blank once trimmed.
SomeFieldBlank(form) == \E k \in DOMAIN form.fields : form.fields[k] \in {"", " "}

\* C22: required-field validation happens before submission: in the four
\* forms a submit whose required field is blank after trimming issues no API
\* request, sets an error message, and leaves the saving flag false.
C22_BlankFieldRefused ==
    [][(event'.type \in {"request", "submit ignored", "submit refused"}
            /\ SomeFieldBlank(pages)) =>
          /\ calls' = calls
          /\ pages'.error \notin {Null, ""}
          /\ ~pages'.isSaving]_vars

\* EditBookForm was submitted with a blank author and refused it.
C22_Witness ==
    /\ event.type = "submit refused"
    /\ pages.form = "EditBookForm" /\ pages.fields["author"] = " "
    /\ pages.error = "El autor es obligatorio"
    /\ ~pages.isSaving /\ \A i \in Slots : calls[i] = Idle

\* C27: in the forms with a submit guard at most one save request is in
\* flight at a time: a submit received while the flag is true issues no
\* request and changes no state, and the flag is false again after every
\* completed submit, whether it succeeded, failed or hit a 401.
C27_OneSaveAtATime ==
    [][/\ Cardinality({i \in Slots : calls'[i] # Idle}) <= 1
       /\ (event'.type \in {"request", "submit ignored", "submit refused"} /\ pages.isSaving) =>
             /\ calls' = calls /\ pages' = pages /\ route' = route
             /\ inMemoryAuthToken' = inMemoryAuthToken /\ localStorage' = localStorage
       /\ event'.type \in {"settled", "submit refused"} => ~pages'.isSaving]_vars

\* A save in flight was answered 401: the flag is false again, the error is
\* the session message and no save is in flight.
C27_Witness ==
    /\ event.type = "settled" /\ event.outcome.name = "ApiError"
    /\ event.outcome.statusCode = 401
    /\ ~pages.isSaving /\ pages.error = SessionExpired
    /\ \A i \in Slots : calls[i] = Idle

-----------------------------------------------------------------------------
(* The derived display statistics of the books page and the loans page.     *)

MaxBooks == 4
ShelfSize == 40
MaxLoans == 2

\* new Date(value).getTime() on the dates the lists carry; NaN for a text
\* that is no date.
NaN == -1
Now == {2, 4}
DateTexts == {"pronto", "2024-01-10", "2030-01-10"}
getTime(value) ==
    CASE value = "2024-01-10" -> 1
      [] value = "2030-01-10" -> 3
      [] OTHER -> NaN

\* The halves k + 1/2 below which the double (numerator / denominator) * 100
\* falls when the exact value is k + 1/2: the quotient is the double nearest
\* to (2k + 1) / 200, and for these k its product with 100 rounds to the
\* double just under k + 1/2 (23 / 40 * 100 is 57.49999999999999).
HalvesBelow == {14, 28, 56, 57}

\* Math.round((numerator / denominator) * 100) in double arithmetic: halves
\* go up, except where the double falls below the half.  Away from a half
\* the double is on the same side of it as the exact value.
MathRoundPercent(numerator, denominator) ==
    LET exact == (200 * numerator + denominator) \div (2 * denominator)
        floor == (100 * numerator) \div denominator
    IN IF 200 * numerator = (2 * floor + 1) * denominator /\ floor \in HalvesBelow
       THEN floor
       ELSE exact

\* BooksPage: the statistics drawn from `books`; SelectSeq is
\* Array.prototype.filter.
BooksStatistics(books) ==
    LET IsAvailable(book) == book.available
        IsLoaned(book) == ~book.available
        totalBooks == Len(books)
        availableBooks == SelectSeq(books, IsAvailable)
        loanedBooks == SelectSeq(books, IsLoaned)
    IN [fn |-> "BooksPage",
        totalBooks |-> totalBooks,
        availableBooks |-> availableBooks,
        loanedBooks |-> loanedBooks,
        availabilityPercentage |->
            IF totalBooks > 0 THEN MathRoundPercent(Len(availableBooks), totalBooks) ELSE 0]

\* An overdue value that only asks for an active loan.
overdueDisplayValueOfActive(activeLoans, activeLoansWithDueInfo, overdueLoans) ==
    IF Len(activeLoans) > 0 THEN ToString(Len(overdueLoans)) ELSE "N/D"

\* overdueDisplayValue: the decimal text of the count, or "N/D".
overdueDisplayValue(activeLoans, activeLoansWithDueInfo, overdueLoans) ==
    IF Len(activeLoansWithDueInfo) > 0 THEN ToString(Len(overdueLoans)) ELSE "N/D"

\* LoansPageContent: the values drawn from `loans` and the clock.
LoansStatistics(loans, now) ==
    LET IsActive(loan) == ~loan.isReturned
        IsReturned(loan) == loan.isReturned
        HasDueInfo(loan) ==
            IF ~Truthy(loan.returnDate) THEN FALSE
            ELSE getTime(loan.returnDate) # NaN
        IsOverdue(loan) ==
            IF ~Truthy(loan.returnDate) THEN FALSE
            ELSE getTime(loan.returnDate) # NaN /\ getTime(loan.returnDate) < now
        activeLoans == SelectSeq(loans, IsActive)
        returnedLoans == SelectSeq(loans, IsReturned)
        activeLoansWithDueInfo == SelectSeq(activeLoans, HasDueInfo)
        overdueLoans == SelectSeq(activeLoansWithDueInfo, IsOverdue)
    IN [fn |-> "LoansPageContent",
        activeLoans |-> activeLoans,
        returnedLoans |-> returnedLoans,
        activeLoansWithDueInfo |-> activeLoansWithDueInfo,
        overdueLoans |-> overdueLoans,
        overdueDisplayValue |->
            overdueDisplayValue(activeLoans, activeLoansWithDueInfo, overdueLoans)]

\* The lists a fetch can leave in the state: each item carries its id.
\* Every short list, and the long lists whose first books are available.
BookLists ==
    UNION {{[i \in 1..n |-> [id |-> i, available |-> flags[i]]] : flags \in [1..n -> BOOLEAN]}
              : n \in 0..MaxBooks}
    \cup {[i \in 1..ShelfSize |-> [id |-> i, available |-> i <= a]] : a \in 0..ShelfSize}
LoanLists ==
    UNION {{[i \in 1..n |-> [id |-> i, isReturned |-> flags[i], returnDate |-> dates[i]]]
               : flags \in [1..n -> BOOLEAN], dates \in [1..n -> DateTexts \cup {Null}]}
              : n \in 0..MaxLoans}

InitStats ==
    /\ inMemoryAuthToken = Null
    /\ customAuthTokenProvider = Null
    /\ localStorage = Null
    /\ environment = "browser"
    /\ calls = [i \in Slots |-> Idle]
    /\ event = TokenEvent("init", {})
    /\ history = History(Null, "no", Null)
    /\ route = "/"
    /\ error = Null
    /\ response = NoResponse
    /\ result = NoResult
    /\ args = NoArgs
    /\ returned = NoReturn
    /\ requests = <<>>
    /\ pages = NoPages

\* A render of the books page over the list in its state.
RenderBooks(books) ==
    /\ args' = [fn |-> "BooksPage", books |-> books]
    /\ returned' = BooksStatistics(books)
    /\ UNCHANGED <<tokenVars, calls, event, history, route, error, response, result,
                   requests, pages>>

\* A render of the loans page over the list in its state, at some time.
RenderLoans(loans, now) ==
    /\ args' = [fn |-> "LoansPageContent", loans |-> loans, now |-> now]
    /\ returned' = LoansStatistics(loans, now)
    /\ UNCHANGED <<tokenVars, calls, event, history, route, error, response, result,
                   requests, pages>>

NextStats ==
    \/ \E books \in BookLists : RenderBooks(books)
    \/ \E loans \in LoanLists, now \in Now : RenderLoans(loans, now)

SpecStats == InitStats /\ [][NextStats]_vars

\* The ids of the items of a list.
IdsOf(items) == {items[i].id : i \in 1..Len(items)}

\* The ids of the active loans of the rendered list whose date is a date.
ActiveWithValidDate ==
    {args.loans[i].id : i \in {j \in 1..Len(args.loans) :
        /\ ~args.loans[j].isReturned
        /\ args.loans[j].returnDate \in {"2024-01-10", "2030-01-10"}}}

\* C23: the derived statistics agree with the fetched lists in every
\* render: on the books page available + loaned = total and the percentage
\* is an integer in 0..100, 0 without books; on the loans page active and
\* returned loans partition the list, the overdue loans are active loans
\* with a valid date, and the overdue value is "N/D" exactly when no active
\* loan has a valid date.
C23_StatisticsAgree ==
    /\ returned.fn = "BooksPage" =>
          /\ Len(returned.availableBooks) + Len(returned.loanedBooks) = returned.totalBooks
          /\ returned.totalBooks = Len(args.books)
          /\ returned.availabilityPercentage \in 0..100
          /\ Len(args.books) = 0 => returned.availabilityPercentage = 0
    /\ returned.fn = "LoansPageContent" =>
          /\ IdsOf(returned.activeLoans) \cup IdsOf(returned.returnedLoans) = IdsOf(args.loans)
          /\ IdsOf(returned.activeLoans) \cap IdsOf(returned.returnedLoans) = {}
          /\ Len(returned.activeLoans) + Len(returned.returnedLoans) = Len(args.loans)
          /\ IdsOf(returned.overdueLoans) \subseteq ActiveWithValidDate
          /\ IdsOf(returned.overdueLoans) \subseteq IdsOf(returned.activeLoans)
          /\ (returned.overdueDisplayValue = "N/D") <=> (ActiveWithValidDate = {})

\* The loans page rendered two active loans none of which has a valid date,
\* and shows "N/D".
C23_Witness ==
    /\ returned.fn = "LoansPageContent"
    /\ Len(returned.activeLoans) = 2
    /\ returned.activeLoans[1].returnDate = "pronto"
    /\ returned.overdueDisplayValue = "N/D"

-----------------------------------------------------------------------------
(* Logout against a login in flight, under Spec.                            *)

\* C24: once clearAuthToken has run the token stays absent until a login is
\* started afterwards: when the step right after a logout is the arrival of
\* the response of a login, which was therefore in flight when the logout
\* ran, the token is still absent after it.
C24_LogoutOutlivesLogin ==
    [][(/\ event.type = "clearAuthToken"
        /\ inMemoryAuthToken = Null /\ localStorage = Null
        /\ event'.type = "settled" /\ event'.op = "login") =>
          (inMemoryAuthToken' = Null /\ localStorage' = Null)]_vars

-----------------------------------------------------------------------------
(* LoanActions as LoansPageContent renders it: the library selection, the   *)
(* loan fields, handleCreateLoan, and the loads that mount and unmount it.  *)

\* The lists a load hands to LoanActions: lists of library ids, lists of
\* available books with the library each belongs to.  The libraryId of the
\* address is fixed while the page is mounted.
LibraryLists == {<<>>, <<"l1">>, <<"l2">>, <<"l1", "l2">>}
Book(id, libraryId) == [id |-> id, libraryId |-> libraryId]
BooksProps ==
    { <<>>, <<Book("b1", "l1")>>, <<Book("b1", "l2")>>,
      <<Book("b1", "l1"), Book("b2", "l2")>> }
InitialLibraryIds == {Undefined, "l2", "l9"}
MemberOptions == {"", "m1"}

\* libraries.some((library) => String(library.id) === id)
HasLibrary(libraries, id) == \E i \in 1..Len(libraries) : libraries[i] = id

\* initialLibraryId ? String(initialLibraryId) : null
normalizedInitialId(initialLibraryId) ==
    IF Truthy(initialLibraryId) THEN initialLibraryId ELSE Null

\* libraries[0] ? String(libraries[0].id) : ""
firstLibrary(libraries) == IF Len(libraries) > 0 THEN libraries[1] ELSE ""

\* The initializer of the selectedLibraryId state.
initialSelection(libraries, initialLibraryId) ==
    IF /\ Truthy(normalizedInitialId(initialLibraryId))
       /\ HasLibrary(libraries, normalizedInitialId(initialLibraryId))
    THEN normalizedInitialId(initialLibraryId)
    ELSE firstLibrary(libraries)

\* An effect that never lets go of the current selection.
effectSelectionKeepingCurrent(libraries, initialLibraryId, current) ==
    IF Truthy(current) THEN current ELSE firstLibrary(libraries)

\* The effect on [initialLibraryId, libraries]: the selection it leaves.
effectSelection(libraries, initialLibraryId, current) ==
    IF Len(libraries) = 0 THEN ""
    ELSE IF /\ Truthy(normalizedInitialId(initialLibraryId))
            /\ HasLibrary(libraries, normalizedInitialId(initialLibraryId))
    THEN normalizedInitialId(initialLibraryId)
    ELSE IF Truthy(current) /\ HasLibrary(libraries, current) THEN current
    ELSE firstLibrary(libraries)

\* books.find((book) => String(book.id) === bookId): the index of the first
\* match, 0 for undefined.
RECURSIVE FindBook(_, _, _)
FindBook(books, bookId, i) ==
    IF i > Len(books) THEN 0
    ELSE IF books[i].id = bookId THEN i
    ELSE FindBook(books, bookId, i + 1)

\* A handleCreateLoan that takes any book for one of the library.
bookRefusedNever(books, bookId, selectedLibraryId) == FALSE

\* !selectedBook || String(selectedBook.libraryId) !== selectedLibraryId
bookRefused(books, bookId, selectedLibraryId) ==
    LET found == FindBook(books, bookId, 1) IN
    \/ found = 0
    \/ books[found].libraryId # selectedLibraryId

\* books.filter((book) => String(book.libraryId) === selectedLibraryId), as
\* the ids the book select offers.
booksForSelectedLibrary(books, selectedLibraryId) ==
    {books[i].id : i \in {j \in 1..Len(books) : books[j].libraryId = selectedLibraryId}}

FormData(bookId, memberId) == [bookId |-> bookId, memberId |-> memberId]

\* The state of LoanActions; an instance that is not rendered has none.
LoanActions(lifecycle, selectedLibraryId, formData, isLoading, err) ==
    [lifecycle |-> lifecycle, selectedLibraryId |-> selectedLibraryId,
     formData |-> formData, isLoading |-> isLoading, error |-> err]
Unrendered == LoanActions("unmounted", "", FormData("", ""), FALSE, Null)

\* LoansPageContent as far as LoanActions depends on it: its loading flag,
\* its error, the lists it hands down (the available books among them),
\* whether its list of active loans offers a return button, the libraryId
\* of the address, and the LoanActions it renders.
LoanActionsPage(lifecycle, isLoading, err, libraries, books, hasActiveLoan, initialLibraryId, child) ==
    [lifecycle |-> lifecycle, isLoading |-> isLoading, error |-> err,
     libraries |-> libraries, books |-> books, hasActiveLoan |-> hasActiveLoan,
     initialLibraryId |-> initialLibraryId, child |-> child]

\* A call of the page or of LoanActions in flight: for loadData, whether
\* handleReturnLoan, handleCreateLoan (as onLoanCreated) or the mount effect
\* awaits it; for a call of LoanActions, whether the instance that made it
\* has been unmounted since.
LoanCall(op, authorization, origin, stale) ==
    [op |-> op, authorization |-> authorization, touched |-> FALSE,
     origin |-> origin, stale |-> stale]
NoLoanCall == LoanCall("idle", Undefined, "none", FALSE)

SelectLibrary == "Selecciona una biblioteca para continuar con el préstamo"
BookNotInLibrary == "El libro seleccionado no pertenece a la biblioteca elegida"

\* The LoanActions the page renders after a render: none while the page
\* loads or has no library; the mounted instance with the effect run when
\* the libraries were set; a new instance, whose initializer and effect
\* have run, otherwise.
childAfter(child, isLoading, libraries, initialLibraryId, librariesSet) ==
    IF isLoading \/ Len(libraries) = 0 THEN Unrendered
    ELSE IF child.lifecycle = "mounted"
    THEN IF librariesSet
         THEN [child EXCEPT !.selectedLibraryId =
                               effectSelection(libraries, initialLibraryId, @)]
         ELSE child
    ELSE LoanActions("mounted",
                     effectSelection(libraries, initialLibraryId,
                                     initialSelection(libraries, initialLibraryId)),
                     FormData("", ""), FALSE, Null)

\* The calls in flight after a render: those of an instance of LoanActions
\* that the render unmounted belong to no mounted instance any more.
callsAfter(inFlight, child) ==
    [j \in Slots |->
        IF child.lifecycle = "unmounted" /\ inFlight[j].op = "loansApi.create"
        THEN [inFlight[j] EXCEPT !.stale = TRUE]
        ELSE inFlight[j]]

InitLoanActions ==
    /\ inMemoryAuthToken = Null
    /\ customAuthTokenProvider = Null
    /\ environment = "browser"
    /\ localStorage = "t1"
    /\ calls = [i \in Slots |-> NoLoanCall]
    /\ event = TokenEvent("init", {})
    /\ history = History(localStorage, "no", Null)
    /\ route = "/loans"
    /\ error = Null
    /\ response = NoResponse
    /\ result = NoResult
    /\ args = NoArgs
    /\ returned = NoReturn
    /\ requests = <<>>
    /\ \E initial \in InitialLibraryIds :
          pages = LoanActionsPage("new", TRUE, Null, <<>>, <<>>, FALSE, initial, Unrendered)

\* loadData up to its await, in slot i of the calls in flight: the page
\* shows the spinner instead of its sections, LoanActions among them.
StartLoadData(inFlight, i, origin) ==
    /\ inMemoryAuthToken' = getAuthToken.memory
    /\ history' = AfterGetAuthToken(Null)
    /\ pages' = [pages EXCEPT !.lifecycle = "mounted", !.isLoading = TRUE, !.error = Null,
                              !.child = Unrendered]
    /\ calls' = callsAfter([inFlight EXCEPT ![i] =
                               LoanCall("loadData", withAuthHeaders, origin, origin = "create")],
                           Unrendered)

\* handleUnauthorized, and the render that follows it.
HandleUnauthorized(inFlight, isLoading) ==
    /\ persistAuthToken(Null)
    /\ history' = History(Null, "yes", Null)
    /\ route' = "/auth/login"
    /\ pages' = [pages EXCEPT !.error = SessionExpired, !.libraries = <<>>, !.books = <<>>,
                              !.hasActiveLoan = FALSE, !.isLoading = isLoading,
                              !.child = Unrendered]
    /\ calls' = callsAfter(inFlight, Unrendered)

\* The effect of the page on its mount: loadData.
PageMounts(i) ==
    /\ pages.lifecycle = "new"
    /\ i = 1
    /\ StartLoadData(calls, i, "mount")
    /\ event' = TokenEvent("load", {})
    /\ UNCHANGED <<customAuthTokenProvider, localStorage, environment, route, error,
                   response, result, args, returned, requests>>

\* The rest of loadData once Promise.all has settled: with the lists, or
\* with the rejection of one of its four requests.  What awaits it resumes
\* afterwards; the handleCreateLoan that awaits it as onLoanCreated then
\* sets the state of an instance the load has unmounted.
LoadSettles(i, resp, libraries, books) ==
    LET outcome == IF resp = NoResponse THEN NetworkError ELSE handleResponse(resp)
        idle == [calls EXCEPT ![i] = NoLoanCall]
    IN
    /\ calls[i].op = "loadData"
    /\ event' = Event(IF outcome.kind = "resolve" THEN "reload" ELSE "load failed",
                      calls[i].op, Undefined, FALSE, Null, FALSE, resp, outcome,
                      IF resp = NoResponse THEN {} ELSE ResponseCaught(resp))
    /\ IF outcome.kind = "resolve"
       THEN /\ pages' = [pages EXCEPT !.libraries = libraries, !.books = books,
                                      !.hasActiveLoan = TRUE, !.isLoading = FALSE,
                                      !.child = childAfter(pages.child, FALSE, libraries,
                                                           pages.initialLibraryId, TRUE)]
            /\ calls' = callsAfter(idle, childAfter(pages.child, FALSE, libraries,
                                                    pages.initialLibraryId, TRUE))
            /\ UNCHANGED <<inMemoryAuthToken, localStorage, history, route>>
       ELSE IF outcome.name = "ApiError" /\ outcome.statusCode = 401
       THEN HandleUnauthorized(idle, FALSE)
       ELSE /\ pages' = [pages EXCEPT !.error = outcome.message, !.libraries = <<>>,
                                      !.books = <<>>, !.hasActiveLoan = FALSE,
                                      !.isLoading = FALSE, !.child = Unrendered]
            /\ calls' = callsAfter(idle, Unrendered)
            /\ UNCHANGED <<inMemoryAuthToken, localStorage, history, route>>
    /\ UNCHANGED <<customAuthTokenProvider, environment, error, response, result,
                   args, returned, requests>>

\* handleReturnLoan up to its await: the rows of the active loans are
\* rendered when the page is not loading.
HandleReturnLoan(i) ==
    /\ pages.lifecycle = "mounted"
    /\ ~pages.isLoading
    /\ pages.hasActiveLoan
    /\ calls[i] = NoLoanCall
    /\ \A j \in 1..(i - 1) : calls[j] # NoLoanCall
    /\ inMemoryAuthToken' = getAuthToken.memory
    /\ history' = AfterGetAuthToken(Null)
    /\ calls' = [calls EXCEPT ![i] = LoanCall("loansApi.returnLoan", withAuthHeaders, "none", FALSE)]
    /\ event' = Event("request", "loansApi.returnLoan", withAuthHeaders, ProviderSupplies,
                      history.freshLogin, FALSE, NoResponse, NoResult, getAuthToken.caught)
    /\ UNCHANGED <<customAuthTokenProvider, localStorage, environment, route, error,
                   response, result, args, returned, requests, pages>>

\* The answer to loansApi.returnLoan: loadData starts, or the catch block
\* of handleReturnLoan runs.
ReturnLoanSettles(i, resp) ==
    LET outcome == IF resp = NoResponse THEN NetworkError ELSE handleResponse(resp) IN
    /\ calls[i].op = "loansApi.returnLoan"
    /\ event' = Event("settled", calls[i].op, Undefined, FALSE, Null, FALSE, resp, outcome,
                      IF resp = NoResponse THEN {} ELSE ResponseCaught(resp))
    /\ IF outcome.kind = "resolve"
       THEN /\ StartLoadData(calls, i, "return")
            /\ UNCHANGED <<localStorage, route>>
       ELSE IF outcome.name = "ApiError" /\ outcome.statusCode = 401
       THEN HandleUnauthorized([calls EXCEPT ![i] = NoLoanCall], pages.isLoading)
       ELSE /\ pages' = [pages EXCEPT !.error = outcome.message]
            /\ calls' = [calls EXCEPT ![i] = NoLoanCall]
            /\ UNCHANGED <<inMemoryAuthToken, localStorage, history, route>>
    /\ UNCHANGED <<customAuthTokenProvider, environment, error, response, result,
                   args, returned, requests>>

loanActionsFrame ==
    UNCHANGED <<tokenVars, calls, history, route, error, response, result,
                args, returned, requests>>

\* handleLibraryChange: the select offers the libraries, unless disabled.
HandleLibraryChange(newLibraryId) ==
    /\ pages.child.lifecycle = "mounted"
    /\ ~pages.child.isLoading
    /\ HasLibrary(pages.libraries, newLibraryId)
    /\ pages' = [pages EXCEPT !.child.selectedLibraryId = newLibraryId,
                              !.child.formData = FormData("", "")]
    /\ event' = TokenEvent("library change", {})
    /\ loanActionsFrame

\* handleLoanFieldChange: the selects offer the books of the selected
\* library and the members, unless disabled.
HandleLoanFieldChange(name, value) ==
    /\ pages.child.lifecycle = "mounted"
    /\ ~pages.child.isLoading
    /\ \/ /\ name = "bookId"
          /\ value \in {""} \cup booksForSelectedLibrary(pages.books, pages.child.selectedLibraryId)
       \/ name = "memberId" /\ value \in MemberOptions
    /\ pages' = [pages EXCEPT !.child.formData[name] = value]
    /\ event' = TokenEvent("field change", {})
    /\ loanActionsFrame

\* handleCreateLoan up to its first await.
HandleCreateLoan(i) ==
    /\ pages.child.lifecycle = "mounted"
    /\ calls[i] = NoLoanCall
    /\ \A j \in 1..(i - 1) : calls[j] # NoLoanCall
    /\ IF ~Truthy(pages.child.selectedLibraryId)
       THEN /\ pages' = [pages EXCEPT !.child.error = SelectLibrary,
                                      !.child.isLoading = FALSE]
            /\ event' = TokenEvent("submit refused", {})
            /\ UNCHANGED <<inMemoryAuthToken, calls, history>>
       ELSE IF bookRefused(pages.books, pages.child.formData.bookId,
                           pages.child.selectedLibraryId)
       THEN /\ pages' = [pages EXCEPT !.child.error = BookNotInLibrary,
                                      !.child.isLoading = FALSE]
            /\ event' = TokenEvent("submit refused", {})
            /\ UNCHANGED <<inMemoryAuthToken, calls, history>>
       ELSE /\ pages' = [pages EXCEPT !.child.error = Null, !.child.isLoading = TRUE]
            /\ event' = Event("request", "loansApi.create", withAuthHeaders, ProviderSupplies,
                              history.freshLogin, FALSE, NoResponse, NoResult,
                              getAuthToken.caught)
            /\ inMemoryAuthToken' = getAuthToken.memory
            /\ calls' = [calls EXCEPT ![i] =
                            LoanCall("loansApi.create", withAuthHeaders, "none", FALSE)]
            /\ history' = AfterGetAuthToken(Null)
    /\ UNCHANGED <<customAuthTokenProvider, localStorage, environment, route, error,
                   response, result, args, returned, requests>>

\* The answer to loansApi.create: on success onLoanCreated, which is the
\* loadData of the page, starts; on a failure the catch block and the
\* finally run, and set state only when the instance is still mounted.
CreateSettles(i, resp) ==
    LET outcome == IF resp = NoResponse THEN NetworkError ELSE handleResponse(resp)
        idle == [calls EXCEPT ![i] = NoLoanCall]
    IN
    /\ calls[i].op = "loansApi.create"
    /\ event' = Event("settled", calls[i].op, Undefined, FALSE, Null, FALSE, resp, outcome,
                      IF resp = NoResponse THEN {} ELSE ResponseCaught(resp))
    /\ IF outcome.kind = "resolve"
       THEN /\ StartLoadData(calls, i, "create")
            /\ UNCHANGED <<localStorage, route>>
       ELSE IF outcome.name = "ApiError" /\ outcome.statusCode = 401
       THEN /\ persistAuthToken(Null)
            /\ history' = History(Null, "yes", Null)
            /\ route' = "/auth/login"
            /\ calls' = idle
            /\ pages' = IF calls[i].stale THEN pages
                        ELSE [pages EXCEPT !.child.error = SessionExpired,
                                           !.child.isLoading = FALSE]
       ELSE /\ calls' = idle
            /\ pages' = IF calls[i].stale THEN pages
                        ELSE [pages EXCEPT !.child.error =
                                               IF Truthy(outcome.message)
                                               THEN outcome.message
                                               ELSE "Error al crear el préstamo",
                                           !.child.isLoading = FALSE]
            /\ UNCHANGED <<inMemoryAuthToken, localStorage, history, route>>
    /\ UNCHANGED <<customAuthTokenProvider, environment, error, response, result,
                   args, returned, requests>>

\* The answers the calls of the page meet; a failed fetch besides.
LoanPageResponses ==
    { Response(200, "application/json", "{\"message\":\"boom\"}", TRUE),
      Response(401, "application/json", "{\"message\":\"boom\"}", TRUE) }

NextLoanActions ==
    \/ \E i \in Slots : PageMounts(i)
    \/ \E i \in Slots, resp \in LoanPageResponses \cup {NoResponse},
          libraries \in LibraryLists, books \in BooksProps :
          LoadSettles(i, resp, libraries, books)
    \/ \E i \in Slots : HandleReturnLoan(i)
    \/ \E i \in Slots, resp \in LoanPageResponses \cup {NoResponse} : ReturnLoanSettles(i, resp)
    \/ \E id \in {"l1", "l2"} : HandleLibraryChange(id)
    \/ \E name \in {"bookId", "memberId"}, value \in {"", "b1", "b2", "m1"} :
          HandleLoanFieldChange(name, value)
    \/ \E i \in Slots : HandleCreateLoan(i)
    \/ \E i \in Slots, resp \in FormResponses \cup {NoResponse} : CreateSettles(i, resp)

SpecLoanActions == InitLoanActions /\ [][NextLoanActions]_vars

\* Whether a library is selected and the selected book is one of the
\* available books and belongs to the selected library.
LoanSendable(page) ==
    /\ page.child.selectedLibraryId # ""
    /\ \E i \in 1..Len(page.books) :
          /\ page.books[i].id = page.child.formData.bookId
          /\ page.books[i].libraryId = page.child.selectedLibraryId

\* C26: LoanActions sends a create-loan request only when a library is
\* selected and the selected book is in the available-books list and belongs
\* to the selected library; otherwise the submit sets an error, sends
\* nothing and leaves isLoading false, whatever library changes, field
\* changes and reloads of the props came before.
C26_LoanSentOnlyWhenSendable ==
    [][/\ (event'.type = "request" /\ event'.op = "loansApi.create") => LoanSendable(pages)
       /\ (event'.type = "submit refused"
             \/ (event'.type = "request" /\ event'.op = "loansApi.create"
                 /\ ~LoanSendable(pages))) =>
             /\ ~LoanSendable(pages)
             /\ calls' = calls
             /\ Truthy(pages'.child.error)
             /\ ~pages'.child.isLoading]_vars

\* A book was chosen, a load that settled while LoanActions was mounted
\* moved the book to another library, and the submit was refused.
C26_Witness ==
    /\ event.type = "submit refused"
    /\ pages.child.formData.bookId = "b1"
    /\ pages.child.selectedLibraryId = "l1"
    /\ pages.books = <<Book("b1", "l2")>>
    /\ pages.child.error = BookNotInLibrary
    /\ ~pages.child.isLoading

\* The selection the claim expects of the effect.
ClaimedSelection(libraries, initialLibraryId, current) ==
    IF HasLibrary(libraries, initialLibraryId) THEN initialLibraryId
    ELSE IF HasLibrary(libraries, current) THEN current
    ELSE IF libraries = <<>> THEN "" ELSE libraries[1]

\* C29: the selected library id of a rendered LoanActions is the empty
\* string exactly when the libraries list is empty and otherwise the id of
\* a library of the current list: a valid initialLibraryId first, else the
\* current selection when still valid, else the first library; and changing
\* the library by hand clears bookId and memberId.
C29_SelectionFollowsLibraries ==
    [][/\ pages'.child.lifecycle = "mounted" =>
             /\ (pages'.child.selectedLibraryId = "") <=> (pages'.libraries = <<>>)
             /\ pages'.libraries # <<>> =>
                   HasLibrary(pages'.libraries, pages'.child.selectedLibraryId)
       /\ (event'.type = "reload" /\ pages'.child.lifecycle = "mounted") =>
             pages'.child.selectedLibraryId =
                 ClaimedSelection(pages'.libraries, pages'.initialLibraryId,
                                  pages.child.selectedLibraryId)
       /\ event'.type = "library change" => pages'.child.formData = FormData("", "")]_vars

\* A load settled while LoanActions was mounted with l2 selected by hand;
\* no valid initialLibraryId; the selection is still l2, not the first
\* library, and the chosen member is still there.
C29_Witness ==
    /\ event.type = "reload"
    /\ pages.initialLibraryId = "l9"
    /\ pages.libraries = <<"l1", "l2">>
    /\ pages.child.lifecycle = "mounted"
    /\ pages.child.selectedLibraryId = "l2"
    /\ pages.child.formData.memberId = "m1"

-----------------------------------------------------------------------------
(* handleDelete of the books page and of the members page.                  *)

ListPages == {"BooksPage", "MembersPage"}
ItemIds == {"1", "2", "3"}
Item(id) == [id |-> id]

\* The lists a finished load leaves on the page.
ItemLists ==
    { <<Item("1"), Item("2"), Item("3")>>, <<Item("3"), Item("1")>>, <<Item("2")>> }

\* A list page once loaded: its list, its loading flag and its error.
ListPage(page, items, isLoading, err) ==
    [page |-> page, items |-> items, isLoading |-> isLoading, error |-> err]

\* A delete request in flight, with the id it was sent for.
DeleteCall(op, authorization, id) ==
    [op |-> op, authorization |-> authorization, touched |-> FALSE, id |-> id]
NoDeleteCall == DeleteCall("idle", Undefined, "")

\* A handler that drops the head of the list, whatever the id.
withoutFirst(previous, id) == Tail(previous)

\* previous.filter((item) => item.id !== id)
withoutItem(previous, id) ==
    LET Kept(item) == item.id # id IN SelectSeq(previous, Kept)

InitDelete ==
    /\ inMemoryAuthToken = Null
    /\ customAuthTokenProvider = Null
    /\ environment = "browser"
    /\ localStorage \in {Null, "t1"}
    /\ calls = [i \in Slots |-> NoDeleteCall]
    /\ event = TokenEvent("init", {})
    /\ history = History(localStorage, "no", Null)
    /\ route = "/"
    /\ error = Null
    /\ response = NoResponse
    /\ result = NoResult
    /\ args = NoArgs
    /\ returned = NoReturn
    /\ requests = <<>>
    /\ \E page \in ListPages, items \in ItemLists : pages = ListPage(page, items, FALSE, Null)

\* handleDelete up to its await: the rows and their buttons are rendered
\* when the page is not loading; window.confirm answers.
HandleDelete(i, id, confirmed) ==
    /\ ~pages.isLoading
    /\ \E k \in 1..Len(pages.items) : pages.items[k].id = id
    /\ calls[i] = NoDeleteCall
    /\ \A j \in 1..(i - 1) : calls[j] # NoDeleteCall
    /\ args' = [fn |-> "handleDelete", id |-> id, confirmed |-> confirmed]
    /\ IF ~confirmed
       THEN /\ event' = TokenEvent("declined", {})
            /\ UNCHANGED <<inMemoryAuthToken, calls, history, pages>>
       ELSE /\ event' = Event("request", pages.page, withAuthHeaders, ProviderSupplies,
                              history.freshLogin, FALSE, NoResponse, NoResult,
                              getAuthToken.caught)
            /\ inMemoryAuthToken' = getAuthToken.memory
            /\ calls' = [calls EXCEPT ![i] = DeleteCall(pages.page, withAuthHeaders, id)]
            /\ history' = AfterGetAuthToken(Null)
            /\ pages' = [pages EXCEPT !.isLoading = TRUE, !.error = Null]
    /\ UNCHANGED <<customAuthTokenProvider, localStorage, environment, route, error,
                   response, result, returned, requests>>

\* The answers a delete meets: 204 without a body, 401, 500 as text.
DeleteResponses ==
    { Response(204, "", "", TRUE),
      Response(401, "application/json", "{\"message\":\"boom\"}", TRUE),
      Response(500, "text/plain", " oops ", TRUE) }

\* The rest of handleDelete: the try block, the catch block, the finally.
DeleteSettles(i, resp) ==
    LET outcome == IF resp = NoResponse THEN NetworkError ELSE handleResponse(resp) IN
    /\ calls[i].op \in ListPages
    /\ calls' = [calls EXCEPT ![i] = NoDeleteCall]
    /\ event' = Event("settled", calls[i].op, Undefined, FALSE, Null, FALSE, resp, outcome,
                      IF resp = NoResponse THEN {} ELSE ResponseCaught(resp))
    /\ IF outcome.kind = "resolve"
       THEN /\ pages' = [pages EXCEPT !.items = withoutItem(@, calls[i].id),
                                      !.isLoading = FALSE]
            /\ UNCHANGED <<inMemoryAuthToken, localStorage, history, route>>
       ELSE IF outcome.name = "ApiError" /\ outcome.statusCode = 401
       THEN /\ persistAuthToken(Null)
            /\ history' = History(Null, "yes", Null)
            /\ route' = "/auth/login"
            /\ pages' = [pages EXCEPT !.error = SessionExpired, !.isLoading = FALSE]
       ELSE /\ pages' = [pages EXCEPT !.error = outcome.message, !.isLoading = FALSE]
            /\ UNCHANGED <<inMemoryAuthToken, localStorage, history, route>>
    /\ UNCHANGED <<customAuthTokenProvider, environment, error, response, result,
                   args, returned, requests>>

NextDelete ==
    \/ \E i \in Slots, id \in ItemIds, confirmed \in BOOLEAN : HandleDelete(i, id, confirmed)
    \/ \E i \in Slots, resp \in DeleteResponses \cup {NoResponse} : DeleteSettles(i, resp)

SpecDelete == InitDelete /\ [][NextDelete]_vars

\* C28: deleting a book or a member changes the local list only on success:
\* a declined confirmation sends no request; a delete that succeeds removes
\* exactly the item with that id and keeps the others; one that fails leaves
\* the list unchanged; and isLoading is false once the handler finishes.
C28_ListChangesOnSuccessOnly ==
    [][/\ event'.type = "declined" => (calls' = calls /\ pages' = pages)
       /\ event'.type = "request" => pages'.items = pages.items
       /\ (event'.type = "settled" /\ event'.outcome.kind = "resolve") =>
             /\ IdsOf(pages'.items) = IdsOf(pages.items) \ {args.id}
             /\ Len(pages'.items) = Len(pages.items) - 1
             /\ \A k \in 1..Len(pages'.items) :
                   pages'.items[k] = pages.items[IF \E j \in 1..k : pages.items[j].id = args.id
                                                 THEN k + 1 ELSE k]
       /\ (event'.type = "settled" /\ event'.outcome.kind # "resolve") =>
             pages'.items = pages.items
       /\ event'.type \in {"declined", "settled"} => ~pages'.isLoading]_vars

\* The delete of item 1, the second of the list, succeeded: item 3 is left.
C28_Witness ==
    /\ event.type = "settled" /\ event.outcome.kind = "resolve"
    /\ args.id = "1"
    /\ pages.items = <<Item("3")>>
    /\ ~pages.isLoading

-----------------------------------------------------------------------------
(* The server actions of app/loans/actions.ts, on the server.               *)

\* What a server action settles with: {success, error}, or a rejection.
ActionSettled(action, settled, success, err) ==
    [fn |-> action, settled |-> settled, success |-> success, error |-> err]

\* What revalidatePath throws when it fails.
RevalidateError == Rejected("Error", 0, "revalidatePath failed")

\* An action without its try/catch: what is thrown leaves the action.
actionResultUncaught(action, outcome, revalidates) ==
    IF outcome.kind = "reject" THEN ActionSettled(action, "reject", FALSE, outcome.message)
    ELSE IF ~revalidates THEN ActionSettled(action, "reject", FALSE, RevalidateError.message)
    ELSE ActionSettled(action, "resolve", TRUE, Undefined)

\* The try block and the catch block of returnLoan and createLoan, on the
\* outcome of the client call and on whether revalidatePath returns.
actionResult(action, outcome, revalidates) ==
    IF outcome.kind = "reject" THEN ActionSettled(action, "resolve", FALSE, outcome.message)
    ELSE IF ~revalidates THEN ActionSettled(action, "resolve", FALSE, RevalidateError.message)
    ELSE ActionSettled(action, "resolve", TRUE, Undefined)

InitActions ==
    /\ inMemoryAuthToken \in {Null, "t1"}
    /\ customAuthTokenProvider = Null
    /\ environment = "server"
    /\ localStorage = Null
    /\ calls = [i \in Slots |-> Idle]
    /\ event = TokenEvent("init", {})
    /\ history = History(inMemoryAuthToken, "no", Null)
    /\ route = "/loans"
    /\ error = Null
    /\ response = NoResponse
    /\ result = NoResult
    /\ args = NoArgs
    /\ returned = NoReturn
    /\ requests = <<>>
    /\ pages = NoPages

\* A server action up to its await: the client call leaves.
ActionRequest(i, action) ==
    /\ calls[i] = Idle
    /\ \A j \in 1..(i - 1) : calls[j] # Idle
    /\ inMemoryAuthToken' = getAuthToken.memory
    /\ calls' = [calls EXCEPT ![i] = Call(action, withAuthHeaders, FALSE)]
    /\ event' = Event("request", action, withAuthHeaders, ProviderSupplies, history.freshLogin,
                      FALSE, NoResponse, NoResult, getAuthToken.caught)
    /\ history' = AfterGetAuthToken(Null)
    /\ UNCHANGED <<customAuthTokenProvider, localStorage, environment, route, error,
                   response, result, args, returned, requests, pages>>

\* The rest of a server action: the client call settles, revalidatePath
\* runs after a success, and the action hands its result back.
ActionSettles(i, resp, revalidates) ==
    LET outcome == IF resp = NoResponse THEN NetworkError ELSE handleResponse(resp) IN
    /\ calls[i].op \in ServerActions
    /\ calls' = [calls EXCEPT ![i] = Idle]
    /\ event' = Event("settled", calls[i].op, Undefined, FALSE, Null, FALSE, resp, outcome,
                      IF resp = NoResponse THEN {} ELSE ResponseCaught(resp))
    /\ args' = [fn |-> calls[i].op, revalidates |-> revalidates]
    /\ returned' = actionResult(calls[i].op, outcome, revalidates)
    /\ UNCHANGED <<tokenVars, history, route, error, response, result, requests, pages>>

\* The answers the server actions meet.
ActionResponses ==
    { Response(200, "application/json", "{\"message\":\"boom\"}", TRUE),
      Response(204, "", "", TRUE),
      Response(401, "application/json", "{\"message\":\"boom\"}", TRUE),
      Response(401, "text/plain", "", TRUE),
      Response(500, "text/plain", " oops ", TRUE) }

NextActions ==
    \/ \E i \in Slots, action \in ServerActions : ActionRequest(i, action)
    \/ \E i \in Slots, resp \in ActionResponses \cup {NoResponse}, revalidates \in BOOLEAN :
          ActionSettles(i, resp, revalidates)

SpecActions == InitActions /\ [][NextActions]_vars

\* C30: the server actions returnLoan and createLoan never reject: they
\* resolve to {success: true} exactly when the API call and the path
\* revalidation completed, and to {success: false, error: message} for
\* every failure, a 401 included.
C30_ActionsNeverReject ==
    event.type = "settled" =>
       /\ returned.fn = event.op
       /\ returned.settled = "resolve"
       /\ returned.success <=> (event.outcome.kind = "resolve" /\ args.revalidates)
       /\ returned.success => returned.error = Undefined
       /\ event.outcome.kind = "reject" =>
             (~returned.success /\ returned.error = event.outcome.message)
       /\ (event.outcome.kind = "resolve" /\ ~args.revalidates) =>
             (~returned.success /\ returned.error = RevalidateError.message)

\* returnLoan met a 401 and resolved to {success: false, error: "boom"}.
C30_Witness ==
    /\ event.type = "settled" /\ event.op = "actions.returnLoan"
    /\ event.outcome.name = "ApiError" /\ event.outcome.statusCode = 401
    /\ returned = ActionSettled("actions.returnLoan", "resolve", FALSE, "boom")

====
